---- MODULE Spec2Model ----
(***************************************************************************)
(* The whisper node of src/whisper: the envelope pool (messages and        *)
(* expirations under poolMu), the expiration loop, the receive loop of     *)
(* handlePeer, the dispatch goroutine postEvent, and the per-peer          *)
(* broadcast task that reads the pool through envelopes().                 *)
(*                                                                         *)
(* Every goroutine is a thread with a program counter.  A step that the    *)
(* code runs while holding poolMu is an action that is enabled only for    *)
(* the holder, so the states in between are the ones other goroutines can  *)
(* see while the lock is held.                                             *)
(***************************************************************************)
EXTENDS Naturals, FiniteSets, Sequences

\* ------------------------------------------------------------------ bounds

\* the wall clock runs over 0..MaxNow (seconds)
MaxNow == 2
\* envelopes carry an Expiry in 1..MaxExpiry
MaxExpiry == 2

\* the longest topic matcher and the longest envelope topic list tried
MaxTopics == 2

\* Seal leaves a Nonce in 0..MaxNonce
MaxNonce == 1

\* ------------------------------------------------------------- the universe

\* Payload shapes of Envelope.Data that Envelope.Open tells apart: a
\* well-formed clear-text message, a message whose signature flag is set with
\* fewer than signatureLength bytes after it, no bytes at all, and a
\* well-formed message whose payload is encrypted to a key this node has not.
Datas == {"clear", "shortsig", "empty", "sealed"}

Expiries == 1..MaxExpiry

\* the TTL an envelope carries: a second, or more than any Expiry
TTLs == {1, MaxExpiry + 1}

Envelope == [Expiry : Expiries, TTL : TTLs, Data : Datas]

NoEnvelope == [Expiry |-> 0, TTL |-> 0, Data |-> "nil"]

\* the envelopes NewEnvelope can make: Expiry is the TTL after some time
Timely == {e \in Envelope : e.TTL <= e.Expiry}

\* rlp.EncodeToBytes(envelope): the fields in their fixed order
rlpEncode(e) == <<e.Expiry, e.TTL, e.Data>>

\* crypto.Keccak256Hash, collision free: the digest determines its input
Keccak256Hash(enc) == [keccak |-> enc]

\* Envelope.Hash
Hash(e) == Keccak256Hash(rlpEncode(e))

Hashes == {Hash(e) : e \in Envelope}

\* the connections the p2p layer may hand to handlePeer
Peers == {"p1", "p2"}

\* the one connection of the single-peer specifications
Linked == {"p1"}

\* the goroutines that call add: the caller of Send, and each peer's handlePeer
Adders == {"api"} \cup Peers

\* the envelopes of NewEnvelope whose payload is a well-formed clear-text
\* message
Cleartext == {e \in Timely : e.Data = "clear"}

\* the clear-text envelope that expires last
Latest == {e \in Cleartext : e.Expiry = MaxExpiry}

\* the clear-text envelope that expires first
Soonest == {e \in Cleartext : e.Expiry = 1}

\* one envelope of NewEnvelope for each shape of unencrypted payload,
\* expiring last
Shapes == {e \in Timely : e.Expiry = MaxExpiry /\ e.Data # "sealed"}

\* the envelopes of NewEnvelope whose unencrypted payload has a flags byte
Flagged == {e \in Timely : e.Data \in {"clear", "shortsig"}}

\* Envelope.Topics of the envelopes modelled: the one topic "news"
Topics(e) == <<"news">>

\* the filters an application may install, named by the one topic of their
\* matcher; neither sets to or from
Filters == {"news", "other"}

\* crypto.GenerateKey may yield these keys
Keys == {"k1"}

\* protocolVersion
protocolVersion == 2

\* the versions a remote may announce in its status frame
Versions == {protocolVersion, protocolVersion + 1}

\* a status frame announcing version v
StatusFrame(v) == [code |-> "status", version |-> v]

\* the transport fails, or the frame read is not a status frame
ReadFailure == [code |-> "error", version |-> 0]

\* nothing was read yet
NoStatus == [code |-> "none", version |-> 0]

\* what the handshake may read
Statuses == {StatusFrame(v) : v \in Versions} \cup {ReadFailure}

\* the decoded packets that carry one envelope of the set E
Frames(E) == {<<e>> : e \in E}

\* a packet whose payload is the encoding of the envelopes f
Packet(f) == [decodes |-> TRUE, envelopes |-> f]

\* a packet whose payload is not a list of envelopes
BadPacket == [decodes |-> FALSE, envelopes |-> <<>>]

\* what rw.ReadMsg may return in the receive loop, for envelopes of the set E
Packets(E) == {Packet(f) : f \in Frames(E)} \cup {BadPacket}


VARIABLES
    now,          \* time.Now().Unix()
    node,         \* "new" (after New), "started" (after Start), "stopped" (quit closed)
    messages,     \* Whisper.messages: hash -> envelope
    expirations,  \* Whisper.expirations: timestamp -> set of hashes
    poolMu,       \* Whisper.poolMu: [w: the write holder or "none", r: the read holders]
    pc,           \* per adder: where the goroutine is
    env,          \* per adder: the envelope handed to add
    addErr,       \* per adder: what the last add returned
    frame,        \* per peer: the envelopes of the decoded packet not yet processed
    updPc,        \* Whisper.update: "off", "select", "range", "each", "exited"
    expNow,       \* expire's local now
    todo,         \* expire: the timestamps the range loop has still to visit
    then,         \* expire: the timestamp whose hash set is being dumped
    events,       \* postEvent goroutines started and not yet finished, per hash
    posted,       \* how many times add started postEvent, per hash
    notified,     \* how many times filters.Notify was invoked, per hash
    conn,         \* per peer: "none", "running", "closed"
    known,        \* per peer: peer.known
    peerPc,       \* per peer, the broadcast task: "wait", "rlock", "have"
    job,          \* per peer: what the task took the snapshot for
    snap,         \* per peer: the slice envelopes() is building / has returned
    sent,         \* per peer: how many times each hash was transmitted to the remote
    recvd,        \* per peer: the hashes the remote has delivered in a frame
    emptySent,    \* per peer: whether a frame without envelopes was ever transmitted
    panicked,     \* "none", or what ended the process: the function whose panic
                  \* nothing recovered, or the map a fatal concurrent access hit
    keys,         \* Whisper.keys: the identities configured
    installed,    \* Whisper.filters: the filters installed
    fired,        \* per filter and hash: how many times the handler was invoked
    peers,        \* Whisper.peers: the peers being tracked
    skipped,      \* per peer: "no", "yes" after a packet that failed to decode,
                  \* "then_read" once a later packet was decoded
    status,       \* per peer: what the handshake read, "none" before it
    poolA,        \* the messages of the node behind connection p1
    wireA,        \* the frames that node has written to this node
    poolC,        \* the messages of the node behind connection p2
    readC,        \* the hashes that node has read off its connection to this node
    batch,        \* per peer: the hashes of the last packet decoded
    msgPc,        \* Messages: "idle", "range" inside the loop over self.messages, "done"
    msgId,        \* Messages: the filter id asked for
    msgSeen,      \* Messages: the envelopes the range loop has yielded
    msgOut,       \* Messages: the hashes of the messages appended to the result
    postPc,       \* per hash, the dispatch goroutine taken step by step: "none",
                  \* "open" inside Whisper.open, "handler" inside a handler
    storing,      \* NewIdentity: the key being written into self.keys, or "none"
    matcher,      \* the topic matcher last tried: a list of alternative groups
    tried,        \* the envelope topic list it was tried against
    matched,      \* the verdict of that trial
    envelope,     \* the *Envelope of the sender: its five fields and the cached hash
    raw,          \* the bytes of the envelope last transmitted, <<>> before that
    decoded,      \* the Envelope the receiver decoded from raw
    key,          \* the key of the envelope in the messages of the sender
    sealRan,      \* whether Seal has returned on the envelope since it was made
    candidates,   \* the nonces the last Seal tried
    score,        \* FirstBitSet of the digest for each nonce, as the last Seal found it
    outcome,      \* per identity: what Envelope.Open of the envelope last dispatched returns with its key
    order,        \* the order in which the range over self.keys yielded the keys in that dispatch
    opened        \* what that dispatch handed to the filter engine

poolVars == <<messages, expirations, poolMu>>
addVars == <<pc, env, addErr, frame>>
expVars == <<updPc, expNow, todo, then>>
evVars == <<events, posted, notified>>
peerVars == <<conn, known, peerPc, job, snap>>
histVars == <<sent, recvd, emptySent>>
apiVars == <<panicked, keys, installed, fired>>
regVars == <<peers, skipped, status>>
lineVars == <<poolA, wireA, poolC, readC>>
frameVars == <<batch>>
qryVars == <<msgPc, msgId, msgSeen, msgOut>>
fineVars == <<postPc, storing>>
matchVars == <<matcher, tried, matched>>
envVars == <<envelope, raw, decoded, key>>
sealVars == <<sealRan, candidates, score>>
openVars == <<outcome, order, opened>>
vars == <<now, node, poolVars, addVars, expVars, evVars, peerVars, histVars,
          apiVars, regVars, lineVars,
          frameVars,
          qryVars,
          fineVars,
          matchVars,
          envVars,
          sealVars,
          openVars>>

\* a range that yields nothing
Range_empty(f) == {}

\* the values a range over a Go map yields
Range(f) == {f[x] : x \in DOMAIN f}

\* ---------------------------------------------------------------- poolMu

\* sync.RWMutex.Lock proceeds when nobody holds the lock
CanLock(mu) == mu.w = "none" /\ mu.r = {}

\* an RLock that does not wait for the writer
CanRLock_unlocked(mu) == TRUE

\* sync.RWMutex.RLock proceeds when no writer holds the lock
CanRLock(mu) == mu.w = "none"

Init ==
    /\ now = 0
    /\ node = "new"
    /\ messages = <<>>
    /\ expirations = <<>>
    /\ poolMu = [w |-> "none", r |-> {}]
    /\ pc = [t \in Adders |-> "idle"]
    /\ env = [t \in Adders |-> NoEnvelope]
    /\ addErr = [t \in Adders |-> "nil"]
    /\ frame = [p \in Peers |-> <<>>]
    /\ updPc = "off"
    /\ expNow = 0
    /\ todo = {}
    /\ then = 0
    /\ events = [h \in Hashes |-> 0]
    /\ posted = [h \in Hashes |-> 0]
    /\ notified = [h \in Hashes |-> 0]
    /\ conn = [p \in Peers |-> "none"]
    /\ known = [p \in Peers |-> {}]
    /\ peerPc = [p \in Peers |-> "wait"]
    /\ job = [p \in Peers |-> "none"]
    /\ snap = [p \in Peers |-> {}]
    /\ sent = [p \in Peers |-> [h \in Hashes |-> 0]]
    /\ recvd = [p \in Peers |-> {}]
    /\ emptySent = [p \in Peers |-> FALSE]
    /\ panicked = "none"
    /\ keys = {}
    /\ installed = {}
    /\ fired = [f \in Filters |-> [h \in Hashes |-> 0]]
    /\ peers = {}
    /\ skipped = [p \in Peers |-> "no"]
    /\ status = [p \in Peers |-> NoStatus]
    /\ poolA = <<>>
    /\ wireA = {}
    /\ poolC = <<>>
    /\ readC = {}
    /\ batch = [p \in Peers |-> {}]
    /\ msgPc = "idle"
    /\ msgId = "none"
    /\ msgSeen = {}
    /\ msgOut = {}
    /\ postPc = [h \in Hashes |-> "none"]
    /\ storing = "none"
    /\ matcher = <<>>
    /\ tried = <<>>
    /\ matched = TRUE
    /\ envelope = [Expiry |-> 0, TTL |-> 0, Data |-> "nil", Nonce |-> 0, hash |-> [keccak |-> <<>>]]
    /\ raw = <<>>
    /\ decoded = [Expiry |-> 0, TTL |-> 0, Data |-> "nil", Nonce |-> 0, hash |-> [keccak |-> <<>>]]
    /\ key = [keccak |-> <<>>]
    /\ sealRan = FALSE
    /\ candidates = {}
    /\ score = [n \in 0..MaxNonce |-> 0]
    /\ outcome = [k \in {"k1", "k2"} |-> "failed"]
    /\ order = <<>>
    /\ opened = [delivered |-> FALSE, payload |-> "none", to |-> "none", notifies |-> 0]

\* the wall clock advances
Tick ==
    /\ now < MaxNow
    /\ now' = now + 1
    /\ UNCHANGED <<openVars, sealVars, envVars, matchVars, fineVars, qryVars, frameVars, lineVars, apiVars, regVars, node, poolVars, addVars, expVars, evVars, peerVars, histVars>>

\* ------------------------------------------------------------------- maps

\* m[k] = v on a Go map
Put(m, k, v) == [x \in DOMAIN m \cup {k} |-> IF x = k THEN v ELSE m[x]]

\* delete(m, k) on a Go map
Delete(m, k) == [x \in DOMAIN m \ {k} |-> m[x]]

\* the envelope a hash was computed from
EnvelopeOf(h) == CHOOSE e \in Envelope : Hash(e) = h

\* -------------------------------------------------------------------- add

\* a short circuit that is missing
Stale_never(e, t) == FALSE

\* a short circuit that lets through the envelope expiring this very second
Stale_strict(e, t) == e.Expiry < t

\* add's short circuit: the envelope has already expired at time t
Stale(e, t) == e.Expiry <= t

\* add's second short circuit: the hash is already tracked
Cached(msgs, e) == Hash(e) \in DOMAIN msgs

\* what add decides once it holds the lock
add_check(msgs, e, t) ==
    IF Stale(e, t) THEN "stale"
    ELSE IF Cached(msgs, e) THEN "dup"
    ELSE "bucket"

\* add up to and including self.messages[hash] = envelope; poolMu stays held
add_lock(t, e) ==
    /\ CanLock(poolMu)
    /\ poolMu' = [poolMu EXCEPT !.w = t]
    /\ env' = [env EXCEPT ![t] = e]
    /\ pc' = [pc EXCEPT ![t] = add_check(messages, e, now)]
    /\ messages' = IF add_check(messages, e, now) = "bucket"
                   THEN Put(messages, Hash(e), e)
                   ELSE messages
    /\ UNCHANGED <<openVars, sealVars, envVars, matchVars, fineVars, qryVars, frameVars, lineVars, apiVars, regVars, now, node, expirations, addErr, frame, expVars, evVars,
                   peerVars, histVars>>

\* an insert that makes a new set for the timestamp every time
BucketAdd_fresh(exps, e, h) == Put(exps, e.Expiry, {h})

\* the expiration pool after add's insert of hash h under the envelope's Expiry
BucketAdd(exps, e, h) ==
    IF e.Expiry \in DOMAIN exps
    THEN [exps EXCEPT ![e.Expiry] = @ \cup {h}]
    ELSE Put(exps, e.Expiry, {h})

\* whether add found the hash missing from its bucket, and so starts postEvent
BucketMiss(exps, e, h) == e.Expiry \notin DOMAIN exps \/ h \notin exps[e.Expiry]

\* add from the insert into the expiration pool to `go self.postEvent`
add_bucket(t) ==
    /\ pc[t] = "bucket"
    /\ LET e == env[t]
           h == Hash(e)
       IN /\ expirations' = BucketAdd(expirations, e, h)
          /\ IF BucketMiss(expirations, e, h)
             THEN /\ events' = [events EXCEPT ![h] = @ + 1]
                  /\ posted' = [posted EXCEPT ![h] = @ + 1]
             ELSE UNCHANGED <<events, posted>>
    /\ pc' = [pc EXCEPT ![t] = "cached"]
    /\ UNCHANGED <<openVars, sealVars, envVars, matchVars, fineVars, qryVars, frameVars, lineVars, apiVars, regVars, now, node, messages, poolMu, env, addErr, frame, expVars,
                   notified, peerVars, histVars>>

\* the error add returns on each of its three paths
add_result(path) == "nil"

\* an add that waits for the dispatch of the envelope to finish
Awaits_dispatch(ev, e) == ev[Hash(e)] > 0

\* whether add waits for the goroutine of `go self.postEvent(envelope)`
\* before it returns: a go statement does not wait
Awaits(ev, e) == FALSE

\* add returns: the deferred Unlock runs and the caller goes on
add_return(t) ==
    /\ pc[t] \in {"stale", "dup", "cached"}
    /\ ~Awaits(events, env[t])
    /\ poolMu' = [poolMu EXCEPT !.w = "none"]
    /\ addErr' = [addErr EXCEPT ![t] = add_result(pc[t])]
    /\ pc' = [pc EXCEPT ![t] = IF t = "api" THEN "idle" ELSE "mark"]
    /\ env' = [env EXCEPT ![t] = IF t = "api" THEN NoEnvelope ELSE @]
    /\ UNCHANGED <<openVars, sealVars, envVars, matchVars, fineVars, qryVars, frameVars, lineVars, apiVars, regVars, now, node, messages, expirations, frame, expVars, evVars,
                   peerVars, histVars>>

\* Whisper.Send
Send(e) ==
    /\ pc["api"] = "idle"
    /\ add_lock("api", e)

\* ----------------------------------------------------------- postEvent

\* an open that never yields a message
open_nothing(e) == "nil"

\* an open that yields the message whether or not a key decrypted it
open_undecrypted(e) == IF e.Data = "empty" THEN "panic" ELSE "message"

\* Whisper.open on the payload shapes modelled, which no key of the node
\* decrypts: Envelope.Open indexes data[0] and panics on a payload without
\* bytes and fails on a signature flag with too short a payload; without
\* identities Open(nil) yields the message as it is; with identities a
\* clear-text payload comes back through the payload-is-not-encrypted
\* return, and on an encrypted one decrypt fails for every key
open(e) ==
    IF e.Data = "empty" THEN "panic"
    ELSE IF e.Data = "shortsig" THEN "nil"
    ELSE IF e.Data = "sealed" /\ keys # {} THEN "nil"
    ELSE "message"

\* createFilter: the filter an envelope is matched as, one group per topic
createFilter(e) == [i \in DOMAIN Topics(e) |-> <<Topics(e)[i]>>]

\* whether installed filter f matches what createFilter made of an envelope:
\* the topic of f's matcher is one of the envelope's
Match(f, made) == \E i \in DOMAIN made : made[i] = <<f>>

\* filters.Notify: the handler of every installed filter that matches runs
Notify(ins, fd, e) ==
    [f \in Filters |->
        IF f \in ins /\ Match(f, createFilter(e))
        THEN [fd[f] EXCEPT ![Hash(e)] = @ + 1]
        ELSE fd[f]]

\* the goroutine add started for hash h runs from its start to its end
postEvent(h) ==
    /\ events[h] > 0
    /\ postPc[h] = "none"
    /\ events' = [events EXCEPT ![h] = @ - 1]
    /\ LET e == EnvelopeOf(h)
           m == open(e)
       IN IF m = "panic"
          THEN /\ panicked' = "Envelope.Open"
               /\ UNCHANGED <<notified, fired>>
          ELSE IF m # "nil"
          THEN /\ notified' = [notified EXCEPT ![h] = @ + 1]
               /\ fired' = Notify(installed, fired, e)
               /\ UNCHANGED panicked
          ELSE UNCHANGED <<notified, fired, panicked>>
    /\ UNCHANGED <<openVars, sealVars, envVars, matchVars, fineVars, qryVars, frameVars, lineVars, keys, installed, regVars, now, node, poolVars, addVars,
                   expVars, posted, peerVars, histVars>>

\* ---------------------------------------------- postEvent, step by step

\* the goroutine add started for hash h enters Whisper.open, which reads
\* self.keys: its length, then a range over it
postEvent_open(h) ==
    /\ events[h] > 0
    /\ postPc[h] = "none"
    /\ postPc' = [postPc EXCEPT ![h] = "open"]
    /\ UNCHANGED <<openVars, sealVars, envVars, matchVars, storing, qryVars, frameVars, lineVars, apiVars, regVars, now,
                   node, poolVars, addVars, expVars, evVars, peerVars, histVars>>

\* whether Notify finds an installed filter that matches envelope e
Handled(ins, e) == \E f \in ins : Match(f, createFilter(e))

\* Whisper.open returns; with a message filters.Notify is called and the
\* handlers of the matching filters are invoked; without one, and when no
\* filter matches, the goroutine ends
postEvent_notify(h) ==
    /\ postPc[h] = "open"
    /\ LET e == EnvelopeOf(h)
           m == open(e)
           runs == m = "message" /\ Handled(installed, e)
       IN /\ postPc' = [postPc EXCEPT ![h] =
                           IF m = "panic" THEN "open"
                           ELSE IF runs THEN "handler" ELSE "none"]
          /\ events' = [events EXCEPT ![h] =
                           IF m = "panic" \/ runs THEN @ ELSE @ - 1]
          /\ panicked' = IF m = "panic" THEN "Envelope.Open" ELSE panicked
          /\ notified' = [notified EXCEPT ![h] =
                             IF m = "message" THEN @ + 1 ELSE @]
          /\ fired' = IF m = "message" THEN Notify(installed, fired, e)
                      ELSE fired
    /\ UNCHANGED <<openVars, sealVars, envVars, matchVars, storing, qryVars, frameVars, lineVars, keys, installed,
                   regVars, now, node, poolVars, addVars, expVars, posted,
                   peerVars, histVars>>

\* the handlers return and the goroutine ends
postEvent_done(h) ==
    /\ postPc[h] = "handler"
    /\ postPc' = [postPc EXCEPT ![h] = "none"]
    /\ events' = [events EXCEPT ![h] = @ - 1]
    /\ UNCHANGED <<openVars, sealVars, envVars, matchVars, storing, qryVars, frameVars, lineVars, apiVars, regVars, now,
                   node, poolVars, addVars, expVars, posted, notified,
                   peerVars, histVars>>

\* --------------------------------------------- NewIdentity, step by step

\* NewIdentity up to the map assignment: crypto.GenerateKey returns key k,
\* or an error (ok = FALSE) and the function panics
NewIdentity_generate(k, ok) ==
    /\ storing = "none"
    /\ IF ok
       THEN /\ storing' = k
            /\ UNCHANGED panicked
       ELSE /\ panicked' = "NewIdentity"
            /\ UNCHANGED storing
    /\ UNCHANGED <<openVars, sealVars, envVars, matchVars, postPc, qryVars, frameVars, lineVars, keys, installed, fired,
                   regVars, now, node, poolVars, addVars, expVars, evVars,
                   peerVars, histVars>>

\* the map assignment self.keys[...] = key is complete
NewIdentity_store ==
    /\ storing # "none"
    /\ keys' = keys \cup {storing}
    /\ storing' = "none"
    /\ UNCHANGED <<openVars, sealVars, envVars, matchVars, postPc, qryVars, frameVars, lineVars, panicked, installed,
                   fired, regVars, now, node, poolVars, addVars, expVars,
                   evVars, peerVars, histVars>>

\* a goroutine reads self.keys in Whisper.open while the map assignment of
\* NewIdentity is under way
KeysRace == storing # "none" /\ \E h \in Hashes : postPc[h] = "open"

\* the runtime may stop the process on the concurrent map access
keys_fault ==
    /\ KeysRace
    /\ panicked' = "keys"
    /\ UNCHANGED <<openVars, sealVars, envVars, matchVars, fineVars, qryVars, frameVars, lineVars, keys, installed,
                   fired, regVars, now, node, poolVars, addVars, expVars,
                   evVars, peerVars, histVars>>

\* ------------------------------------------------- NewIdentity, Watch

\* Whisper.NewIdentity when crypto.GenerateKey returns key k, or an error
\* (ok = FALSE): the key is stored, or the function panics
NewIdentity(k, ok) ==
    /\ IF ok
       THEN /\ keys' = keys \cup {k}
            /\ UNCHANGED panicked
       ELSE /\ panicked' = "NewIdentity"
            /\ UNCHANGED keys
    /\ UNCHANGED <<openVars, sealVars, envVars, matchVars, fineVars, qryVars, frameVars, lineVars, installed, fired, regVars, now, node, poolVars, addVars,
                   expVars, evVars, peerVars, histVars>>

\* Whisper.Watch: the filter is installed
Watch(f) ==
    /\ installed' = installed \cup {f}
    /\ UNCHANGED <<openVars, sealVars, envVars, matchVars, fineVars, qryVars, frameVars, lineVars, panicked, keys, fired, regVars, now, node, poolVars,
                   addVars, expVars, evVars, peerVars, histVars>>

\* Whisper.Unwatch: the filter is uninstalled
Unwatch(f) ==
    /\ installed' = installed \ {f}
    /\ UNCHANGED <<openVars, sealVars, envVars, matchVars, fineVars, qryVars, frameVars, lineVars, panicked, keys, fired, regVars, now, node, poolVars,
                   addVars, expVars, evVars, peerVars, histVars>>

\* ------------------------------------------------------------- Messages

\* Whisper.Messages(id): self.filters.Get(id); with a filter the range over
\* self.messages begins, without one the empty list is returned
Messages_get(id) ==
    /\ msgPc \in {"idle", "done"}
    /\ msgId' = id
    /\ msgSeen' = {}
    /\ msgOut' = {}
    /\ msgPc' = IF id \in installed THEN "range" ELSE "done"
    /\ UNCHANGED <<openVars, sealVars, envVars, matchVars, fineVars, frameVars, lineVars, apiVars, regVars, now, node, poolVars,
                   addVars, expVars, evVars, peerVars, histVars>>

\* the range over self.messages yields one more envelope: it is opened and,
\* if it opens and the filter matches, appended; poolMu is not taken
Messages_each ==
    /\ msgPc = "range"
    /\ \E e \in Range(messages) \ msgSeen :
          /\ msgSeen' = msgSeen \cup {e}
          /\ IF open(e) = "panic"
             THEN /\ panicked' = "Envelope.Open"
                  /\ UNCHANGED msgOut
             ELSE /\ msgOut' = IF open(e) # "nil" /\ Match(msgId, createFilter(e))
                               THEN msgOut \cup {Hash(e)}
                               ELSE msgOut
                  /\ UNCHANGED panicked
    /\ UNCHANGED <<openVars, sealVars, envVars, matchVars, fineVars, frameVars, lineVars, keys, installed, fired, regVars, now, node,
                   poolVars, addVars, expVars, evVars, peerVars, histVars,
                   msgPc, msgId>>

\* the range over self.messages runs while add or expire is inside its
\* critical section: the runtime may stop the process on the concurrent map
\* access
Messages_fault ==
    /\ msgPc = "range"
    /\ poolMu.w # "none"
    /\ panicked' = "Messages"
    /\ UNCHANGED <<openVars, sealVars, envVars, matchVars, fineVars, qryVars, frameVars, lineVars, keys, installed, fired, regVars, now,
                   node, poolVars, addVars, expVars, evVars, peerVars, histVars>>

\* the range is over: Messages returns the list
Messages_return ==
    /\ msgPc = "range"
    /\ Range(messages) \subseteq msgSeen
    /\ msgPc' = "done"
    /\ UNCHANGED <<openVars, sealVars, envVars, matchVars, fineVars, frameVars, lineVars, apiVars, regVars, now, node, poolVars,
                   addVars, expVars, evVars, peerVars, histVars,
                   msgId, msgSeen, msgOut>>

\* ------------------------------------------------------- Start, Stop, update

\* Whisper.Start: go self.update()
Start ==
    /\ node = "new"
    /\ node' = "started"
    /\ updPc' = "select"
    /\ UNCHANGED <<openVars, sealVars, envVars, matchVars, fineVars, qryVars, frameVars, lineVars, apiVars, regVars, now, poolVars, addVars, expNow, todo, then, evVars,
                   peerVars, histVars>>

\* Whisper.Stop: close(self.quit)
Stop ==
    /\ node = "started"
    /\ node' = "stopped"
    /\ UNCHANGED <<openVars, sealVars, envVars, matchVars, fineVars, qryVars, frameVars, lineVars, apiVars, regVars, now, poolVars, addVars, expVars, evVars, peerVars, histVars>>

\* a quit channel that never becomes ready
Closed_never(n) == FALSE

\* `<-self.quit` is ready: Stop has closed the channel
Closed(n) == n = "stopped"

\* update's select takes the quit case
update_quit ==
    /\ updPc = "select"
    /\ Closed(node)
    /\ updPc' = "exited"
    /\ UNCHANGED <<openVars, sealVars, envVars, matchVars, fineVars, qryVars, frameVars, lineVars, apiVars, regVars, now, node, poolVars, addVars, expNow, todo, then, evVars,
                   peerVars, histVars>>

\* a test that also skips the bucket of the current second
Future_orEqual(t, n) == t >= n

\* a test that skips the stale buckets instead of the future ones
Future_inverted(t, n) == t <= n

\* a test that skips nothing
Future_never(t, n) == FALSE

\* expire's test `then > now`: the bucket is of a future time and is skipped
Future(t, n) == t > n

\* update's select takes the ticker case: expire locks the pool and samples now
expire_lock ==
    /\ updPc = "select"
    /\ CanLock(poolMu)
    /\ poolMu' = [poolMu EXCEPT !.w = "update"]
    /\ expNow' = now
    /\ todo' = {t \in DOMAIN expirations : ~Future(t, now)}
    /\ updPc' = "range"
    /\ UNCHANGED <<openVars, sealVars, envVars, matchVars, fineVars, qryVars, frameVars, lineVars, apiVars, regVars, now, node, messages, expirations, addVars, then, evVars,
                   peerVars, histVars>>

\* the range loop of expire picks the next timestamp that is not skipped
expire_range ==
    /\ updPc = "range"
    /\ \E t \in todo :
          /\ then' = t
          /\ todo' = todo \ {t}
    /\ updPc' = "each"
    /\ UNCHANGED <<openVars, sealVars, envVars, matchVars, fineVars, qryVars, frameVars, lineVars, apiVars, regVars, now, node, poolVars, addVars, expNow, evVars, peerVars,
                   histVars>>

\* hashSet.Each: one more hash of the bucket is deleted from messages
expire_each ==
    /\ updPc = "each"
    /\ \E h \in expirations[then] \cap DOMAIN messages :
          messages' = Delete(messages, h)
    /\ UNCHANGED <<openVars, sealVars, envVars, matchVars, fineVars, qryVars, frameVars, lineVars, apiVars, regVars, now, node, expirations, poolMu, addVars, expVars, evVars,
                   peerVars, histVars>>

\* a Clear that leaves the set as it is
Clear_keep(exps, t) == exps

\* the bucket after self.expirations[then].Clear()
Clear(exps, t) == [exps EXCEPT ![t] = {}]

\* Each has visited every hash of the bucket: the bucket is cleared
expire_clear ==
    /\ updPc = "each"
    /\ expirations[then] \cap DOMAIN messages = {}
    /\ expirations' = Clear(expirations, then)
    /\ then' = 0
    /\ updPc' = "range"
    /\ UNCHANGED <<openVars, sealVars, envVars, matchVars, fineVars, qryVars, frameVars, lineVars, apiVars, regVars, now, node, messages, poolMu, addVars, expNow, todo,
                   evVars, peerVars, histVars>>

\* the range loop is over: the deferred Unlock runs, back to the select
expire_unlock ==
    /\ updPc = "range"
    /\ todo = {}
    /\ poolMu' = [poolMu EXCEPT !.w = "none"]
    /\ expNow' = 0
    /\ updPc' = "select"
    /\ UNCHANGED <<openVars, sealVars, envVars, matchVars, fineVars, qryVars, frameVars, lineVars, apiVars, regVars, now, node, messages, expirations, addVars, todo, then,
                   evVars, peerVars, histVars>>

\* -------------------------------------------------------------- handlePeer

\* self.peers[whisperPeer] = struct{}{}
Track(ps, p) == ps \cup {p}

\* a deferred function that forgets to delete
Untrack_leak(ps, p) == ps

\* the deferred delete(self.peers, whisperPeer)
Untrack(ps, p) == ps \ {p}

\* handlePeer: newPeer, and the peer is tracked; the handshake is pending
handlePeer_track(p) ==
    /\ conn[p] = "none"
    /\ conn' = [conn EXCEPT ![p] = "negotiating"]
    /\ peers' = Track(peers, p)
    /\ UNCHANGED <<openVars, sealVars, envVars, matchVars, fineVars, qryVars, frameVars, lineVars, apiVars, skipped, status, now, node, poolVars, addVars,
                   expVars, evVars, known, peerPc, job, snap, histVars>>

\* peer.handshake on reading st: nil for a status frame of the local version
handshake(st) ==
    IF st.code # "status" THEN "ReadError"
    ELSE IF st.version = protocolVersion THEN "nil"
    ELSE "HandshakeFailed"

\* a gate that lets every peer through
Proceeds_always(err) == TRUE

\* handlePeer goes on to whisperPeer.start only if handshake returned no error
Proceeds(err) == err = "nil"

\* whisperPeer.handshake returns after reading st: the peer is started, or
\* handlePeer returns the error and the deferred delete forgets the peer
handlePeer_handshake(p, st) ==
    /\ conn[p] = "negotiating"
    /\ status' = [status EXCEPT ![p] = st]
    /\ IF Proceeds(handshake(st))
       THEN /\ conn' = [conn EXCEPT ![p] = "running"]
            /\ UNCHANGED peers
       ELSE /\ conn' = [conn EXCEPT ![p] = "closed"]
            /\ peers' = Untrack(peers, p)
    /\ UNCHANGED <<openVars, sealVars, envVars, matchVars, fineVars, qryVars, frameVars, lineVars, apiVars, skipped, now, node, poolVars, addVars, expVars,
                   evVars, known, peerPc, job, snap, histVars>>

\* a decoder that rejects every payload
Decodes_never(pkt) == FALSE

\* whether packet.Decode(&envelopes) returns no error
Decodes(pkt) == pkt.decodes

\* a receive loop that gives up the peer on a packet it cannot decode
OnBadPacket_disconnect(c) == "closed"

\* the connection after a packet that failed to decode: `continue`
OnBadPacket(c) == c

\* rw.ReadMsg returns packet pkt: it decodes into its envelopes, or it is
\* logged and skipped
handlePeer_read(p, pkt) ==
    /\ conn[p] = "running"
    /\ pc[p] = "idle"
    /\ IF Decodes(pkt)
       THEN /\ frame' = [frame EXCEPT ![p] = pkt.envelopes]
            /\ pc' = [pc EXCEPT ![p] =
                         IF pkt.envelopes = <<>> THEN "idle" ELSE "call"]
            /\ recvd' = [recvd EXCEPT ![p] =
                            @ \cup {Hash(pkt.envelopes[i]) :
                                       i \in DOMAIN pkt.envelopes}]
            /\ batch' = [batch EXCEPT ![p] =
                            {Hash(pkt.envelopes[i]) : i \in DOMAIN pkt.envelopes}]
            /\ skipped' = [skipped EXCEPT ![p] =
                              IF @ = "yes" THEN "then_read" ELSE @]
            /\ UNCHANGED conn
       ELSE /\ conn' = [conn EXCEPT ![p] = OnBadPacket(@)]
            /\ skipped' = [skipped EXCEPT ![p] = "yes"]
            /\ UNCHANGED <<frame, pc, recvd, batch>>
    /\ UNCHANGED <<openVars, sealVars, envVars, matchVars, fineVars, qryVars, lineVars, apiVars, peers, status, now, node, poolVars, env, addErr,
                   expVars, evVars, known, peerPc, job, snap, sent, emptySent>>

\* rw.ReadMsg fails: handlePeer returns, the peer is stopped and forgotten
handlePeer_return(p) ==
    /\ conn[p] = "running"
    /\ pc[p] = "idle"
    /\ conn' = [conn EXCEPT ![p] = "closed"]
    /\ known' = [known EXCEPT ![p] = {}]
    /\ peers' = Untrack(peers, p)
    /\ UNCHANGED <<openVars, sealVars, envVars, matchVars, fineVars, qryVars, frameVars, lineVars, apiVars, skipped, status, now, node, poolVars, addVars,
                   expVars, evVars, peerPc, job, snap, histVars>>

\* the loop over the decoded envelopes calls self.add(envelope)
handlePeer_add(p) ==
    /\ pc[p] = "call"
    /\ add_lock(p, Head(frame[p]))

\* a mark that records nothing
mark_nothing(kn, e) == kn

\* peer.mark: the hash joins the known set
mark(kn, e) == kn \cup {Hash(e)}

\* whisperPeer.mark(envelope), then the next envelope or the next packet
handlePeer_mark(p) ==
    /\ pc[p] = "mark"
    /\ known' = [known EXCEPT ![p] = mark(@, env[p])]
    /\ frame' = [frame EXCEPT ![p] = Tail(@)]
    /\ pc' = [pc EXCEPT ![p] = IF Tail(frame[p]) = <<>> THEN "idle" ELSE "call"]
    /\ env' = [env EXCEPT ![p] = NoEnvelope]
    /\ UNCHANGED <<openVars, sealVars, envVars, matchVars, fineVars, qryVars, frameVars, lineVars, apiVars, regVars, now, node, poolVars, addErr, expVars, evVars, conn,
                   peerPc, job, snap, histVars>>

\* --------------------------------------------------------------- envelopes

\* the peer's task calls envelopes() for job j: RLock, an empty slice
envelopes_rlock(p, j) ==
    /\ conn[p] = "running"
    /\ peerPc[p] = "wait"
    /\ CanRLock(poolMu)
    /\ poolMu' = [poolMu EXCEPT !.r = @ \cup {p}]
    /\ peerPc' = [peerPc EXCEPT ![p] = "rlock"]
    /\ job' = [job EXCEPT ![p] = j]
    /\ snap' = [snap EXCEPT ![p] = {}]
    /\ UNCHANGED <<openVars, sealVars, envVars, matchVars, fineVars, qryVars, frameVars, lineVars, apiVars, regVars, now, node, messages, expirations, addVars, expVars, evVars,
                   conn, known, histVars>>

\* the range over self.messages appends one more envelope
envelopes_range(p) ==
    /\ peerPc[p] = "rlock"
    /\ \E e \in Range(messages) \ snap[p] :
          snap' = [snap EXCEPT ![p] = @ \cup {e}]
    /\ UNCHANGED <<openVars, sealVars, envVars, matchVars, fineVars, qryVars, frameVars, lineVars, apiVars, regVars, now, node, poolVars, addVars, expVars, evVars, conn, known,
                   peerPc, job, histVars>>

\* the range over self.messages has produced every entry
RangeDone(p) == Range(messages) \subseteq snap[p]

\* envelopes() returns: the deferred RUnlock runs
envelopes_return(p) ==
    /\ peerPc[p] = "rlock"
    /\ RangeDone(p)
    /\ poolMu' = [poolMu EXCEPT !.r = @ \ {p}]
    /\ peerPc' = [peerPc EXCEPT ![p] = "have"]
    /\ UNCHANGED <<openVars, sealVars, envVars, matchVars, fineVars, qryVars, frameVars, lineVars, apiVars, regVars, now, node, messages, expirations, addVars, expVars, evVars,
                   conn, known, job, snap, histVars>>

\* ------------------------------------------------------- the peer's task

\* the envelopes of a snapshot the remote is not believed to have
Delta(sn, kn) == {e \in sn : Hash(e) \notin kn}

\* whether a cycle with delta d writes a frame: an empty delta suppresses it
SendsFrame(d) == d # {}

\* one broadcast cycle: the delta goes out as one frame and becomes known;
\* on a closed transport nothing goes out
broadcast(p) ==
    /\ peerPc[p] = "have"
    /\ job[p] = "broadcast"
    /\ LET d == Delta(snap[p], known[p])
           frameOut == conn[p] = "running" /\ SendsFrame(d)
           out == IF conn[p] = "running" THEN {Hash(e) : e \in d} ELSE {}
       IN /\ known' = [known EXCEPT ![p] = @ \cup out]
          /\ sent' = [sent EXCEPT ![p] =
                        [h \in Hashes |-> IF h \in out THEN @[h] + 1 ELSE @[h]]]
          /\ emptySent' = [emptySent EXCEPT ![p] = @ \/ (frameOut /\ out = {})]
    /\ peerPc' = [peerPc EXCEPT ![p] = "wait"]
    /\ job' = [job EXCEPT ![p] = "none"]
    /\ snap' = [snap EXCEPT ![p] = {}]
    /\ UNCHANGED <<openVars, sealVars, envVars, matchVars, fineVars, qryVars, frameVars, lineVars, apiVars, regVars, now, node, poolVars, addVars, expVars, evVars, conn, recvd>>

\* a pruning that removes nothing
Prune_keep(kn, sn) == kn

\* the known set after pruning against snapshot sn of the pool
Prune(kn, sn) == kn \cap {Hash(e) : e \in sn}

\* one pruning cycle: hashes no longer in the pool leave the known set
peer_expire(p) ==
    /\ peerPc[p] = "have"
    /\ job[p] = "expire"
    /\ known' = [known EXCEPT ![p] = Prune(@, snap[p])]
    /\ peerPc' = [peerPc EXCEPT ![p] = "wait"]
    /\ job' = [job EXCEPT ![p] = "none"]
    /\ snap' = [snap EXCEPT ![p] = {}]
    /\ UNCHANGED <<openVars, sealVars, envVars, matchVars, fineVars, qryVars, frameVars, lineVars, apiVars, regVars, now, node, poolVars, addVars, expVars, evVars, conn,
                   histVars>>

\* --------------------------------------------------------- specifications

\* the jobs of a peer's periodic task
Jobs == {"broadcast", "expire"}

\* The pool and the goroutines of the node itself: the caller of Send, the
\* expiration loop, the dispatch goroutines.
Next ==
    \/ Tick
    \/ Start
    \/ Stop
    \/ update_quit
    \/ \E e \in Flagged : Send(e)
    \/ add_bucket("api")
    \/ add_return("api")
    \/ \E h \in Hashes : postEvent(h)
    \/ expire_lock
    \/ expire_range
    \/ expire_each
    \/ expire_clear
    \/ expire_unlock

Spec == Init /\ [][Next]_vars

\* The node fed by Send and by the receive loop of a peer, on clear-text
\* envelopes.
NextNode ==
    \/ Tick
    \/ Start
    \/ Stop
    \/ update_quit
    \/ \E e \in Cleartext : Send(e)
    \/ \E t \in {"api"} \cup Linked : add_bucket(t)
    \/ \E t \in {"api"} \cup Linked : add_return(t)
    \/ \E h \in Hashes : postEvent(h)
    \/ expire_lock
    \/ expire_range
    \/ expire_each
    \/ expire_clear
    \/ expire_unlock
    \/ \E p \in Linked : handlePeer_track(p)
    \/ \E p \in Linked : handlePeer_handshake(p, StatusFrame(protocolVersion))
    \/ \E p \in Linked, f \in Frames(Cleartext) : handlePeer_read(p, Packet(f))
    \/ \E p \in Linked : handlePeer_return(p)
    \/ \E p \in Linked : handlePeer_add(p)
    \/ \E p \in Linked : handlePeer_mark(p)

SpecNode == Init /\ [][NextNode]_vars

\* The gossip of one peer: its receive loop and its periodic task against
\* the pool, the local sender and the expiration loop, on clear-text envelopes.
NextPeer ==
    \/ Tick
    \/ Start
    \/ \E e \in Cleartext : Send(e)
    \/ \E t \in {"api"} \cup Linked : add_bucket(t)
    \/ \E t \in {"api"} \cup Linked : add_return(t)
    \/ expire_lock
    \/ expire_range
    \/ expire_each
    \/ expire_clear
    \/ expire_unlock
    \/ \E p \in Linked : handlePeer_track(p)
    \/ \E p \in Linked : handlePeer_handshake(p, StatusFrame(protocolVersion))
    \/ \E p \in Linked, f \in Frames(Cleartext) : handlePeer_read(p, Packet(f))
    \/ \E p \in Linked : handlePeer_return(p)
    \/ \E p \in Linked : handlePeer_add(p)
    \/ \E p \in Linked : handlePeer_mark(p)
    \/ \E p \in Linked, j \in Jobs : envelopes_rlock(p, j)
    \/ \E p \in Linked : envelopes_range(p)
    \/ \E p \in Linked : envelopes_return(p)
    \/ \E p \in Linked : broadcast(p)
    \/ \E p \in Linked : peer_expire(p)

SpecPeer == Init /\ [][NextPeer]_vars

\* What the scheduler guarantees to the expiration loop and to a goroutine
\* inside add: the ticker keeps firing and a goroutine that can run does run;
\* a Lock that is requested again and again is granted in the end.
Fairness ==
    /\ SF_vars(expire_lock)
    /\ WF_vars(expire_range)
    /\ WF_vars(expire_each)
    /\ WF_vars(expire_clear)
    /\ WF_vars(expire_unlock)
    /\ WF_vars(add_bucket("api"))
    /\ WF_vars(add_return("api"))

\* The expiration loop under that scheduler, fed by Send with clear-text
\* envelopes; dispatch plays no part in the removal of an envelope.
NextLive ==
    \/ Tick
    \/ Start
    \/ Stop
    \/ update_quit
    \/ \E e \in Cleartext : Send(e)
    \/ add_bucket("api")
    \/ add_return("api")
    \/ expire_lock
    \/ expire_range
    \/ expire_each
    \/ expire_clear
    \/ expire_unlock

SpecLive == Init /\ [][NextLive]_vars /\ Fairness

\* ------------------------------------------------------------------ claims

\* adder t enters add in this step; env'[t] is the envelope it was handed
Enters(t) == pc[t] \in {"idle", "call"} /\ pc'[t] \in {"stale", "dup", "bucket"}

\* adder t returns from add in this step
Returns(t) == pc[t] \in {"stale", "dup", "cached"} /\ pc'[t] \in {"idle", "mark"}

\* the timestamps whose bucket holds hash h
BucketsOf(h) == {t \in DOMAIN expirations : h \in expirations[t]}

\* hash h is in neither index
Gone(h) == h \notin DOMAIN messages /\ BucketsOf(h) = {}

\* C1: at-most-once dispatch. For every hash, add has started at most one
\* postEvent goroutine and the filter engine was notified at most once, over
\* any mix of Send calls, arrivals from a peer and sweeps; and the pool holds
\* an envelope only under its own hash, hence at most once.
C1_AtMostOnce ==
    /\ \A h \in Hashes : posted[h] <= 1 /\ notified[h] <= 1
    /\ \A h \in DOMAIN messages : Hash(messages[h]) = h

\* an envelope that was dispatched and swept has arrived again from the peer,
\* and add has returned
C1_Witness ==
    \E p \in Peers : \E h \in Hashes :
        /\ posted[h] = 1 /\ notified[h] = 1
        /\ h \notin DOMAIN messages
        /\ pc[p] = "mark" /\ Hash(env[p]) = h

\* C2 as claimed: whatever a read of the pool is returning, expiry > now.
C2_Original ==
    \A p \in Peers : peerPc[p] = "rlock" => \A e \in snap[p] : e.Expiry > now

\* C2 as amended: a read returns envelopes of the pool only; an envelope has
\* expiry > now at the moment add inserts it, and every envelope a sweep
\* leaves behind has expiry > the time that sweep sampled. (Between sweeps the
\* clock may pass the expiry of an envelope that a read still returns.)
C2_Amended ==
    /\ [](\A p \in Peers : peerPc[p] = "rlock" => snap[p] \subseteq Range(messages))
    /\ [][/\ \A h \in DOMAIN messages' \ DOMAIN messages :
                messages'[h].Expiry > now
          /\ (updPc = "range" /\ updPc' = "select") =>
                \A h \in DOMAIN messages' : messages'[h].Expiry > expNow]_vars

\* a read is returning an envelope whose expiry the clock has passed
C2_Witness ==
    \E p \in Peers : peerPc[p] = "rlock" /\ \E e \in snap[p] : e.Expiry <= now

\* C3: index consistency. While poolMu is not write-held, every envelope of
\* messages has its hash in exactly one bucket, the one keyed by its Expiry.
C3_IndexConsistent ==
    poolMu.w = "none" =>
        \A h \in DOMAIN messages : BucketsOf(h) = {messages[h].Expiry}

\* two live envelopes share a bucket after an earlier bucket was swept
C3_Witness ==
    /\ poolMu.w = "none"
    /\ Cardinality(DOMAIN messages) >= 2
    /\ \E t \in DOMAIN expirations : expirations[t] = {}

\* an earlier add of e has had its effect: e was accepted once, or e is stale
Added(e) == posted[Hash(e)] >= 1 \/ e.Expiry <= now

\* C4: idempotence of add. When add(e) returns, e has been accepted or is
\* stale; that stays so whatever runs next; and an add(e) called in such a
\* state takes an early return and changes neither index nor the dispatches
\* scheduled. So add(e) after add(e) leaves the pool as one add(e) does.
C4_AddIdempotent ==
    [][\A t \in Adders :
        /\ Returns(t) =>
              (posted'[Hash(env[t])] >= 1 \/ env[t].Expiry <= now')
        /\ \A e \in Envelope : Added(e) => Added(e)'
        /\ (Enters(t) /\ Added(env'[t])) =>
              /\ pc'[t] \in {"stale", "dup"}
              /\ UNCHANGED <<messages, expirations, events, posted>>
        /\ (pc[t] \in {"stale", "dup"} /\ Returns(t)) =>
              UNCHANGED <<messages, expirations, events, posted>>]_vars

\* Send(e) was called again while e is in the pool and is about to return
C4_Witness ==
    /\ pc["api"] = "dup"
    /\ posted[Hash(env["api"])] = 1
    /\ Hash(env["api"]) \in DOMAIN messages

\* C5: stale rejection. An add of an envelope with expiry <= now takes the
\* stale return, which yields no error, and the call changes neither index
\* and starts no dispatch.
C5_StaleSilent ==
    [][\A t \in Adders :
        /\ (Enters(t) /\ env'[t].Expiry <= now) =>
              /\ pc'[t] = "stale"
              /\ UNCHANGED <<messages, expirations, evVars>>
        /\ (pc[t] = "stale" /\ Returns(t)) =>
              /\ addErr'[t] = "nil"
              /\ UNCHANGED <<messages, expirations, evVars>>]_vars

\* the peer has delivered an envelope that expires this very second, into a
\* pool that is not empty, and add is about to return
C5_Witness ==
    \E p \in Peers :
        /\ pc[p] = "stale"
        /\ env[p].Expiry = now
        /\ DOMAIN messages # {}

\* C6: sweep postcondition. When expire has visited every bucket it does not
\* skip, and before it unlocks, messages holds no envelope with expiry <= the
\* time it sampled and every bucket of a timestamp <= that time is empty.
C6_SweepPost ==
    (updPc = "range" /\ todo = {}) =>
        /\ \A h \in DOMAIN messages : messages[h].Expiry > expNow
        /\ \A t \in DOMAIN expirations : t <= expNow => expirations[t] = {}

\* a sweep that dumped a bucket and left a live envelope is about to unlock
C6_Witness ==
    /\ updPc = "range" /\ todo = {}
    /\ DOMAIN messages # {}
    /\ \E t \in DOMAIN expirations : t <= expNow
    /\ \E h \in Hashes : posted[h] = 1 /\ Gone(h)

\* C7: expiry liveness. On a started node, an envelope in the pool whose
\* expiry the clock has reached is eventually in neither index, unless the
\* node is stopped first.
C7_ExpiryLiveness ==
    \A h \in Hashes :
        (node = "started" /\ h \in DOMAIN messages /\ messages[h].Expiry <= now)
            ~> (Gone(h) \/ node = "stopped")

\* on a started node an accepted envelope has left both indexes
C7_Witness ==
    /\ node = "started"
    /\ updPc = "select"
    /\ \E h \in Hashes : posted[h] = 1 /\ Gone(h)

\* C8: snapshot atomicity. When envelopes() has finished its range, still
\* holding the read lock, the slice is exactly the content of messages at
\* that instant, every envelope of it is in its bucket as well, and no
\* bucket is partly removed from messages.
C8_SnapshotAtomic ==
    \A p \in Peers :
        (peerPc[p] = "rlock" /\ RangeDone(p)) =>
            /\ snap[p] = Range(messages)
            /\ \A e \in snap[p] : BucketsOf(Hash(e)) = {e.Expiry}
            /\ \A t \in DOMAIN expirations :
                  \/ expirations[t] \subseteq DOMAIN messages
                  \/ expirations[t] \cap DOMAIN messages = {}

\* a snapshot of two envelopes is complete
C8_Witness ==
    \E p \in Peers :
        /\ peerPc[p] = "rlock" /\ RangeDone(p)
        /\ Cardinality(snap[p]) >= 2

\* C9: no duplicate transmission. No hash goes out to the remote more than
\* once, and no frame without envelopes goes out.
C9_NoDuplicate ==
    \A p \in Peers :
        /\ ~emptySent[p]
        /\ \A h \in Hashes : sent[p][h] <= 1

\* a later broadcast cycle has its snapshot while a hash that went out
\* earlier is no longer in the known set
C9_Witness ==
    \E p \in Peers : \E h \in Hashes :
        /\ sent[p][h] = 1
        /\ h \notin known[p]
        /\ conn[p] = "running"
        /\ peerPc[p] = "have" /\ job[p] = "broadcast"

\* C10: no echo. A broadcast never transmits to the remote a hash that the
\* remote has already delivered in a frame.
C10_NoEcho ==
    [][\A p \in Peers : \A h \in Hashes :
          sent'[p][h] > sent[p][h] => h \notin recvd[p]]_vars

\* ------------------------------------------- connections come and go

\* Two connections handed to handlePeer, with every outcome of the handshake
\* and every kind of packet, beside the local sender and the broadcast tasks;
\* one envelope travels and the clock stands still.
NextConn ==
    \/ \E e \in Latest : Send(e)
    \/ \E t \in Adders : add_bucket(t)
    \/ \E t \in Adders : add_return(t)
    \/ \E p \in Peers : handlePeer_track(p)
    \/ \E p \in Peers, st \in Statuses : handlePeer_handshake(p, st)
    \/ \E p \in Peers, pkt \in Packets(Latest) : handlePeer_read(p, pkt)
    \/ \E p \in Peers : handlePeer_return(p)
    \/ \E p \in Peers : handlePeer_add(p)
    \/ \E p \in Peers : handlePeer_mark(p)
    \/ \E p \in Peers : envelopes_rlock(p, "broadcast")
    \/ \E p \in Peers : envelopes_range(p)
    \/ \E p \in Peers : envelopes_return(p)
    \/ \E p \in Peers : broadcast(p)

SpecConn == Init /\ [][NextConn]_vars

\* nothing was read from peer p as an envelope and nothing was sent to it
Untouched(p) ==
    /\ recvd[p] = {}
    /\ \A h \in Hashes : sent[p][h] = 0
    /\ known[p] = {}
    /\ pc[p] = "idle" /\ frame[p] = <<>>
    /\ peerPc[p] = "wait"

\* C13: handshake gate. A peer is Running only if its handshake read a
\* status frame of the local protocol version; a peer whose handshake read
\* anything else is Closed; and a peer that has not been Running has had no
\* envelope read from it and none sent to it.
C13_HandshakeGate ==
    \A p \in Peers :
        /\ conn[p] = "running" => status[p] = StatusFrame(protocolVersion)
        /\ status[p] \notin {NoStatus, StatusFrame(protocolVersion)}
              => conn[p] = "closed"
        /\ (\/ conn[p] \in {"none", "negotiating"}
            \/ status[p] # StatusFrame(protocolVersion)) => Untouched(p)

\* one peer was turned away for its version while the other, let through,
\* has delivered an envelope and was sent one
C13_Witness ==
    \E p, q \in Peers :
        /\ conn[p] = "closed" /\ status[p] = StatusFrame(protocolVersion + 1)
        /\ conn[q] = "running"
        /\ recvd[q] # {}
        /\ \E h \in Hashes : sent[q][h] = 1

\* C14: Closed is terminal and isolated. A closed peer stays closed, is not
\* in the registry, and has no envelope read from it or sent to it any more;
\* and the step that closes a peer changes neither index of the pool nor
\* anything of another peer.
C14_ClosedTerminal ==
    [][\A p \in Peers :
        /\ conn[p] = "closed" =>
              /\ conn'[p] = "closed"
              /\ p \notin peers /\ p \notin peers'
              /\ recvd'[p] = recvd[p] /\ sent'[p] = sent[p]
              /\ pc'[p] = "idle" /\ known'[p] = {}
        /\ (conn[p] # "closed" /\ conn'[p] = "closed") =>
              /\ p \notin peers'
              /\ UNCHANGED <<messages, expirations>>
              /\ \A q \in Peers \ {p} :
                    /\ conn'[q] = conn[q] /\ known'[q] = known[q]
                    /\ (q \in peers') = (q \in peers)
                    /\ pc'[q] = pc[q] /\ frame'[q] = frame[q]
                    /\ peerPc'[q] = peerPc[q] /\ snap'[q] = snap[q]]_vars

\* a peer that had delivered an envelope is closed by a read error while the
\* pool holds an envelope and the other peer is running and tracked
C14_Witness ==
    \E p, q \in Peers :
        /\ conn[p] = "closed" /\ status[p] = StatusFrame(protocolVersion)
        /\ recvd[p] # {}
        /\ DOMAIN messages # {}
        /\ conn[q] = "running" /\ q \in peers /\ known[q] # {}

\* C15: a bad frame is skipped and the peer is kept. The step in which a
\* packet fails to decode changes neither index of the pool nor the peer's
\* known set, and leaves the peer running with its receive loop at ReadMsg.
C15_BadFrameSkipped ==
    [][\A p \in Peers :
        (skipped[p] # "yes" /\ skipped'[p] = "yes") =>
            /\ UNCHANGED <<messages, expirations, known, evVars>>
            /\ conn'[p] = "running"
            /\ pc'[p] = "idle"]_vars

\* an envelope of the packet that followed an undecodable one was added
C15_Witness ==
    \E p \in Peers :
        /\ skipped[p] = "then_read"
        /\ conn[p] = "running"
        /\ pc[p] = "mark"
        /\ Hash(env[p]) \in DOMAIN messages

\* ------------------------------------------------- the process as a whole

\* no panic has ended the process
Alive == panicked = "none"

\* The node as its callers and one remote drive it; the remote delivers
\* payloads of every shape; an unrecovered panic in any goroutine ends the process, and with
\* it every goroutine.
NextApi ==
    \/ Alive /\ \E e \in Shapes \cap Flagged : Send(e)
    \/ Alive /\ \E t \in {"api"} \cup Linked : add_bucket(t)
    \/ Alive /\ \E t \in {"api"} \cup Linked : add_return(t)
    \/ Alive /\ \E h \in Hashes : postEvent(h)
    \/ Alive /\ \E k \in Keys, ok \in BOOLEAN : NewIdentity(k, ok)
    \/ Alive /\ \E p \in Linked : handlePeer_track(p)
    \/ Alive /\ \E p \in Linked :
                    handlePeer_handshake(p, StatusFrame(protocolVersion))
    \/ Alive /\ \E p \in Linked, f \in Frames(Shapes) :
                    handlePeer_read(p, Packet(f))
    \/ Alive /\ \E p \in Linked : handlePeer_return(p)
    \/ Alive /\ \E p \in Linked : handlePeer_add(p)
    \/ Alive /\ \E p \in Linked : handlePeer_mark(p)

SpecApi == Init /\ [][NextApi]_vars

\* Envelope.Open cannot parse the payload of e as a message
Malformed(e) == e.Data \in {"empty", "shortsig"}

\* C16: a malformed inner message brings down neither node nor peer. When a
\* peer has delivered an envelope whose payload does not parse, no panic of
\* Envelope.Open has ended the process and nothing of that envelope has
\* reached the filter engine.
C16_MalformedConfined ==
    \A p \in Peers : \A h \in recvd[p] :
        Malformed(EnvelopeOf(h)) =>
            /\ panicked # "Envelope.Open"
            /\ notified[h] = 0

\* C17: no abort on a failure of identity generation. No panic of
\* NewIdentity ends the process.
C17_NoAbort == panicked # "NewIdentity"

\* C18: Stop joins the background work. Once Stop has returned, the
\* expiration loop has exited.
C18_StopJoins == node = "stopped" => updPc = "exited"

\* ------------------------------------------------------- local dispatch

\* What the scheduler guarantees to the dispatch goroutines and to a
\* goroutine inside add: a goroutine that can run does run.
FairDispatch ==
    /\ \A h \in Hashes : WF_vars(postEvent(h))
    /\ WF_vars(add_bucket("api"))
    /\ WF_vars(add_return("api"))

\* A node without identities whose application installs filters and sends
\* clear-text envelopes, under that scheduler, with the expiration loop.
NextLoop ==
    \/ Tick
    \/ Start
    \/ \E f \in Filters : Watch(f)
    \/ \E e \in Cleartext : Send(e)
    \/ add_bucket("api")
    \/ add_return("api")
    \/ \E h \in Hashes : postEvent(h)
    \/ expire_lock
    \/ expire_range
    \/ expire_each
    \/ expire_clear
    \/ expire_unlock

SpecLoop == Init /\ [][NextLoop]_vars /\ FairDispatch

\* the hashes of the clear-text envelopes, the ones this node is sent
ClearHashes == {Hash(e) : e \in Cleartext}

\* filter f accepts the topics of the envelope with hash h
Accepts(f, h) == Match(f, createFilter(EnvelopeOf(h)))

C20_Original ==
    \A f \in Filters : \A h \in ClearHashes :
        (/\ f \in installed /\ Accepts(f, h)
         /\ h \in DOMAIN messages /\ messages[h].Expiry > now)
            ~> (fired[f][h] = 1)

\* C20 as amended: the handlers are invoked by the one dispatch that add
\* starts when it inserts the envelope, for the filters installed when that
\* dispatch reaches the filter engine. Once the dispatch of an envelope has
\* run no handler is invoked for it any more, so a filter installed after
\* that is never invoked for it; and no handler is invoked twice.
C20_Amended ==
    /\ [](\A f \in Filters : \A h \in Hashes : fired[f][h] <= 1)
    /\ [][\A f \in Filters : \A h \in Hashes :
            /\ (posted[h] >= 1 /\ events[h] = 0) => fired'[f][h] = fired[f][h]
            /\ fired'[f][h] > fired[f][h] =>
                  (f \in installed /\ events'[h] < events[h])]_vars

\* a matching filter is installed, the envelope is pooled and not expired,
\* its dispatch is over, and the handler has not been invoked
C20_Witness ==
    \E f \in Filters : \E h \in Hashes :
        /\ f \in installed /\ Accepts(f, h)
        /\ h \in DOMAIN messages /\ messages[h].Expiry > now
        /\ posted[h] = 1 /\ events[h] = 0
        /\ fired[f][h] = 0

\* ------------------------------------------------------ one-hop flooding

\* the connection whose remote delivers envelopes
Source == {"p1"}

\* the connection whose broadcast task is followed
Sink == {"p2"}

\* What the scheduler guarantees to a peer's broadcast task: the
\* transmission ticker keeps firing, an RLock that is free again and again
\* is granted, and a goroutine that can run does run; the same for the
\* goroutines that hold the pool lock in between.
FairBroadcast ==
    /\ \A p \in Sink : SF_vars(envelopes_rlock(p, "broadcast"))
    /\ \A p \in Sink : WF_vars(envelopes_range(p))
    /\ \A p \in Sink : WF_vars(envelopes_return(p))
    /\ \A p \in Sink : WF_vars(broadcast(p))
    /\ \A t \in {"api"} \cup Source : WF_vars(add_bucket(t))
    /\ \A t \in {"api"} \cup Source : WF_vars(add_return(t))
    /\ WF_vars(expire_range)
    /\ WF_vars(expire_each)
    /\ WF_vars(expire_clear)
    /\ WF_vars(expire_unlock)

\* A node that takes an envelope from Send and another from one remote and
\* floods them to a second remote, with the expiration loop and the clock.
NextFlood ==
    \/ Tick
    \/ Start
    \/ \E e \in Latest : Send(e)
    \/ \E t \in {"api"} \cup Source : add_bucket(t)
    \/ \E t \in {"api"} \cup Source : add_return(t)
    \/ expire_lock
    \/ expire_range
    \/ expire_each
    \/ expire_clear
    \/ expire_unlock
    \/ \E p \in Peers : handlePeer_track(p)
    \/ \E p \in Peers : handlePeer_handshake(p, StatusFrame(protocolVersion))
    \/ \E p \in Source, f \in Frames(Soonest) : handlePeer_read(p, Packet(f))
    \/ \E p \in Source : handlePeer_add(p)
    \/ \E p \in Source : handlePeer_mark(p)
    \/ \E p \in Sink : handlePeer_return(p)
    \/ \E p \in Sink : envelopes_rlock(p, "broadcast")
    \/ \E p \in Sink : envelopes_range(p)
    \/ \E p \in Sink : envelopes_return(p)
    \/ \E p \in Sink : broadcast(p)

SpecFlood == Init /\ [][NextFlood]_vars /\ FairBroadcast

\* C11: one-hop flooding liveness. An envelope in the pool, put there by
\* Send or by ingest from another peer, that a running peer is not known
\* to have is eventually transmitted to that peer, unless before that the
\* peer stops running, or the envelope is swept from the pool, or the
\* remote turns out to have it.
C11_FloodLiveness ==
    \A p \in Sink : \A h \in ClearHashes :
        (h \in DOMAIN messages /\ conn[p] = "running" /\ h \notin known[p])
            ~> \/ sent[p][h] >= 1
               \/ conn[p] # "running"
               \/ h \notin DOMAIN messages
               \/ h \in known[p]

\* an envelope that came in from one remote has gone out to the other, and
\* so has one that came from Send
C11_Witness ==
    \E p \in Sink : \E q \in Source : \E h, g \in ClearHashes :
        /\ h \in recvd[q] /\ h \in known[q] /\ sent[p][h] = 1
        /\ g \notin recvd[q] /\ sent[p][g] = 1
        /\ conn[p] = "running"

\* ------------------------------------------------------ gossip over a line

\* The node modelled above is B, the middle of a line A - B - C: A is the
\* node behind connection p1 and originates envelopes, C is the node behind
\* connection p2.  A and C run the same add, expire and broadcast cycle as
\* B; nothing on them is concurrent with anything else of theirs here, so
\* each of their calls is one step.

\* the pool of a node after a whole call of add(e) at time t
ingest(msgs, e, t) ==
    IF add_check(msgs, e, t) = "bucket" THEN Put(msgs, Hash(e), e) ELSE msgs

\* the pool of a node after a whole call of expire() at time t
swept(msgs, t) ==
    [h \in {x \in DOMAIN msgs : Future(msgs[x].Expiry, t)} |-> msgs[h]]

\* the orders in which a range over a Go map may yield the envelopes of S
Orderings(S) ==
    {f \in [1..Cardinality(S) -> S] : \A e \in S : \E i \in DOMAIN f : f[i] = e}

\* the hashes of the envelopes of a frame
FrameHashes(f) == {Hash(f[i]) : i \in DOMAIN f}

\* A's known set for B: what it has written to B
KnownA == UNION {FrameHashes(f) : f \in wireA}

\* the frames A has written that B has not read
Unread == {f \in wireA : FrameHashes(f) \cap recvd["p1"] = {}}

\* an application calls Send(e) on A
A_Send(e) ==
    /\ poolA' = ingest(poolA, e, now)
    /\ poolA' # poolA
    /\ UNCHANGED <<openVars, sealVars, envVars, matchVars, fineVars, qryVars, frameVars, wireA, poolC, readC, apiVars, regVars, now, node, poolVars,
                   addVars, expVars, evVars, peerVars, histVars>>

\* A's expiration loop runs
A_expire ==
    /\ poolA' = swept(poolA, now)
    /\ poolA' # poolA
    /\ UNCHANGED <<openVars, sealVars, envVars, matchVars, fineVars, qryVars, frameVars, wireA, poolC, readC, apiVars, regVars, now, node, poolVars,
                   addVars, expVars, evVars, peerVars, histVars>>

\* one broadcast cycle of A's task for its peer B
A_broadcast ==
    /\ conn["p1"] = "running"
    /\ LET d == Delta(Range(poolA), KnownA)
       IN /\ SendsFrame(d)
          /\ \E f \in Orderings(d) : wireA' = wireA \cup {f}
    /\ UNCHANGED <<openVars, sealVars, envVars, matchVars, fineVars, qryVars, frameVars, poolA, poolC, readC, apiVars, regVars, now, node, poolVars,
                   addVars, expVars, evVars, peerVars, histVars>>

\* B's receive loop reads a frame that A wrote
B_read ==
    \E f \in Unread : handlePeer_read("p1", Packet(f))

\* the hashes B has transmitted to C that C has not read
Undelivered == {h \in Hashes : sent["p2"][h] >= 1 /\ h \notin readC}

\* C's receive loop reads the envelope of hash h and calls add
C_read(h) ==
    /\ h \in Undelivered
    /\ readC' = readC \cup {h}
    /\ poolC' = ingest(poolC, EnvelopeOf(h), now)
    /\ UNCHANGED <<openVars, sealVars, envVars, matchVars, fineVars, qryVars, frameVars, poolA, wireA, apiVars, regVars, now, node, poolVars,
                   addVars, expVars, evVars, peerVars, histVars>>

\* C's expiration loop runs
C_expire ==
    /\ poolC' = swept(poolC, now)
    /\ poolC' # poolC
    /\ UNCHANGED <<openVars, sealVars, envVars, matchVars, fineVars, qryVars, frameVars, poolA, wireA, readC, apiVars, regVars, now, node, poolVars,
                   addVars, expVars, evVars, peerVars, histVars>>

\* What the schedulers and the transport guarantee along the line: the
\* tickers of the three nodes keep firing, a frame written is delivered, a
\* lock that is free again and again is granted, and a goroutine that can
\* run does run.
FairLine ==
    /\ FairBroadcast
    /\ WF_vars(A_broadcast)
    /\ WF_vars(B_read)
    /\ \A p \in Source : SF_vars(handlePeer_add(p))
    /\ \A p \in Source : WF_vars(handlePeer_mark(p))
    /\ \A h \in Hashes : WF_vars(C_read(h))

\* The line: A sends an envelope that expires first and one that expires
\* last, B relays, C receives; every node sweeps, the clock runs.
NextLine ==
    \/ Tick
    \/ Start
    \/ expire_lock
    \/ expire_range
    \/ expire_each
    \/ expire_clear
    \/ expire_unlock
    \/ \E e \in Soonest \cup Latest : A_Send(e)
    \/ A_expire
    \/ A_broadcast
    \/ \E p \in Peers : handlePeer_track(p)
    \/ \E p \in Peers : handlePeer_handshake(p, StatusFrame(protocolVersion))
    \/ B_read
    \/ \E p \in Source : handlePeer_add(p)
    \/ \E p \in Source : add_bucket(p)
    \/ \E p \in Source : add_return(p)
    \/ \E p \in Source : handlePeer_mark(p)
    \/ \E p \in Sink : envelopes_rlock(p, "broadcast")
    \/ \E p \in Sink : envelopes_range(p)
    \/ \E p \in Sink : envelopes_return(p)
    \/ \E p \in Sink : broadcast(p)
    \/ \E h \in Hashes : C_read(h)
    \/ C_expire

SpecLine == Init /\ [][NextLine]_vars /\ FairLine

\* both connections of B are up
LineUp == \A p \in Peers : conn[p] = "running"

Batches(E) == Frames(E) \cup {<<a, b>> : a \in E, b \in E}

\* The receive loop of one connection on packets of one or two envelopes,
\* one expiring first and one last, against the clock and against the
\* periodic task of both peers; nothing else feeds the pool.
NextRecv ==
    \/ Tick
    \/ \E p \in Peers : handlePeer_track(p)
    \/ \E p \in Peers : handlePeer_handshake(p, StatusFrame(protocolVersion))
    \/ \E p \in Source, f \in Batches(Soonest \cup Latest) :
          handlePeer_read(p, Packet(f))
    \/ \E p \in Source : handlePeer_add(p)
    \/ \E p \in Source : add_bucket(p)
    \/ \E p \in Source : add_return(p)
    \/ \E p \in Source : handlePeer_mark(p)
    \/ \E p \in Peers, j \in Jobs : envelopes_rlock(p, j)
    \/ \E p \in Peers : envelopes_range(p)
    \/ \E p \in Peers : envelopes_return(p)
    \/ \E p \in Peers : broadcast(p)
    \/ \E p \in Peers : peer_expire(p)

SpecRecv == Init /\ [][NextRecv]_vars

\* the receive loop of peer p finishes a packet in this step
Finishes(p) == pc[p] = "mark" /\ pc'[p] = "idle"

\* The statement as worded: when the receive loop has processed a decoded
\* packet, the hash of every envelope of the packet is in the peer's known
\* set.
C30_Original ==
    [][\A p \in Peers : Finishes(p) => batch[p] \subseteq known'[p]]_vars

\* C30: receive marks every envelope. The step that ends the processing of
\* an envelope of a decoded packet puts its hash into that peer's known
\* set, whatever add did with the envelope, and changes no other peer's
\* known set; no step of a receive loop changes another peer's known set.
\* A hash marked earlier in the packet may have been pruned again by the
\* peer's own task if the pool does not hold it.
C30_Amended ==
    [][\A p \in Peers :
        /\ (pc[p] = "mark" /\ pc'[p] # "mark") =>
              /\ Hash(env[p]) \in known'[p]
              /\ known[p] \subseteq known'[p]
        /\ pc'[p] # pc[p] =>
              \A q \in Peers \ {p} : known'[q] = known[q]]_vars

\* a packet of two envelopes is done: the one add rejected as stale and
\* the one add pooled are both known of the peer, and the other peer's
\* known set holds what was broadcast to it
C30_Witness ==
    \E p \in Source : \E q \in Peers \ {p} : \E h, g \in ClearHashes :
        /\ pc[p] = "idle" /\ batch[p] = {h, g} /\ h # g
        /\ h \notin DOMAIN messages /\ posted[h] = 0
        /\ g \in DOMAIN messages /\ posted[g] = 1
        /\ {h, g} \subseteq known[p]
        /\ known[q] = {g}

\* ------------------------------------------------------ Expiry and TTL

\* uint32 arithmetic, scaled down: every Expiry and every TTL is below
\* Modulus, which stands for 2^32
Modulus == MaxExpiry + 2

\* Message.Sent as Envelope.Open derives it: self.Expiry - self.TTL on uint32
Sent(e) == (e.Expiry + Modulus - e.TTL) % Modulus

\* what a remote may put on the wire: clear-text envelopes expiring last,
\* with either TTL
Wire == {e \in Envelope : e.Data = "clear" /\ e.Expiry = MaxExpiry}

\* The node fed by Send with envelopes of NewEnvelope and by one remote
\* with any envelope that decodes.
NextWire ==
    \/ Tick
    \/ \E e \in Latest : Send(e)
    \/ \E t \in {"api"} \cup Linked : add_bucket(t)
    \/ \E t \in {"api"} \cup Linked : add_return(t)
    \/ \E h \in Hashes : postEvent(h)
    \/ \E p \in Linked : handlePeer_track(p)
    \/ \E p \in Linked : handlePeer_handshake(p, StatusFrame(protocolVersion))
    \/ \E p \in Linked, f \in Batches(Wire) : handlePeer_read(p, Packet(f))
    \/ \E p \in Linked : handlePeer_return(p)
    \/ \E p \in Linked : handlePeer_add(p)
    \/ \E p \in Linked : handlePeer_mark(p)

SpecWire == Init /\ [][NextWire]_vars

\* C25: Expiry >= TTL for pooled envelopes. Every envelope in the pool,
\* those decoded from a peer's frame included, has Expiry >= TTL, and the
\* send time derived from it on unsigned values has not wrapped around.
C25_ExpiryCoversTTL ==
    \A h \in DOMAIN messages :
        /\ messages[h].Expiry >= messages[h].TTL
        /\ Sent(messages[h]) <= messages[h].Expiry

\* ------------------------------------------------- unopenable envelopes

\* envelopes of NewEnvelope whose payload is encrypted to a key this node
\* has not, one expiring first and one last
Sealed == {e \in Timely : e.Data = "sealed" /\ e.Expiry \in {1, MaxExpiry}}

\* The node with identities, filters and one peer, sent envelopes it cannot
\* decrypt; the expiration loop and the clock run.
NextSeal ==
    \/ Tick
    \/ Start
    \/ \E k \in Keys : NewIdentity(k, TRUE)
    \/ \E f \in Filters : Watch(f)
    \/ \E e \in Sealed : Send(e)
    \/ add_bucket("api")
    \/ add_return("api")
    \/ \E h \in Hashes : postEvent(h)
    \/ expire_lock
    \/ expire_range
    \/ expire_each
    \/ expire_clear
    \/ expire_unlock
    \/ \E p \in Linked : handlePeer_track(p)
    \/ \E p \in Linked : handlePeer_handshake(p, StatusFrame(protocolVersion))
    \/ \E p \in Linked : envelopes_rlock(p, "broadcast")
    \/ \E p \in Linked : envelopes_range(p)
    \/ \E p \in Linked : envelopes_return(p)
    \/ \E p \in Linked : broadcast(p)

SpecSeal == Init /\ [][NextSeal]_vars

\* the hashes of the envelopes no key of the node decrypts
SealedHashes == {Hash(e) : e \in Sealed}

\* C21: unopenable envelopes are flooded but not delivered. For an
\* envelope that no identity decrypts: a dispatch that runs while the node
\* has an identity invokes no handler, notifies no filter and leaves both
\* indexes alone; the envelope leaves the pool only in a sweep at or after
\* its Expiry; a snapshot that returns holds it if the pool does, and a
\* broadcast cycle whose snapshot holds it transmits it to a running peer
\* that is not known to have it.
C21_FloodedNotDelivered ==
    [][\A h \in SealedHashes :
        /\ (events'[h] < events[h] /\ keys # {}) =>
              /\ fired' = fired /\ notified' = notified
              /\ messages' = messages /\ expirations' = expirations
        /\ (h \in DOMAIN messages /\ h \notin DOMAIN messages') =>
              /\ updPc = "each"
              /\ ~Future(EnvelopeOf(h).Expiry, expNow)
        /\ \A p \in Peers :
              /\ (peerPc[p] = "rlock" /\ peerPc'[p] = "have"
                     /\ h \in DOMAIN messages) => EnvelopeOf(h) \in snap'[p]
              /\ (peerPc[p] = "have" /\ peerPc'[p] = "wait"
                     /\ job[p] = "broadcast" /\ conn[p] = "running"
                     /\ EnvelopeOf(h) \in snap[p] /\ h \notin known[p])
                    => sent'[p][h] = sent[p][h] + 1]_vars

\* with an identity configured and a matching filter installed, the
\* dispatch of a pooled envelope that no key decrypts has run and no handler
\* has; the envelope is still pooled and has been transmitted to the peer
C21_Witness ==
    \E h \in SealedHashes : \E p \in Linked :
        /\ keys # {} /\ "news" \in installed
        /\ h \in DOMAIN messages
        /\ posted[h] = 1 /\ events[h] = 0
        /\ notified[h] = 0 /\ fired["news"][h] = 0
        /\ sent[p][h] = 1

\* ------------------------------------------------------ queries of the pool

\* The node with filters, a local sender, the expiration loop and an
\* application calling Messages; a panic ends the process.
NextQuery ==
    \/ Alive /\ Tick
    \/ Alive /\ Start
    \/ Alive /\ \E f \in Filters : Watch(f)
    \/ Alive /\ \E e \in Soonest \cup Latest : Send(e)
    \/ Alive /\ add_bucket("api")
    \/ Alive /\ add_return("api")
    \/ Alive /\ \E h \in Hashes : postEvent(h)
    \/ Alive /\ expire_lock
    \/ Alive /\ expire_range
    \/ Alive /\ expire_each
    \/ Alive /\ expire_clear
    \/ Alive /\ expire_unlock
    \/ Alive /\ \E id \in Filters : Messages_get(id)
    \/ Alive /\ Messages_each
    \/ Alive /\ Messages_fault
    \/ Alive /\ Messages_return

SpecQuery == Init /\ [][NextQuery]_vars

\* a goroutine is inside the critical section of add or of expire
Mutating == poolMu.w # "none"

\* C26: pool lock discipline. add and expire are inside their critical
\* sections only as the holder of the write lock; envelopes() ranges over
\* the messages index only as a holder of the read lock; and no range over
\* the messages index, by envelopes() or by Messages, is under way while add
\* or expire is inside its critical section.
C26_LockDiscipline ==
    /\ \A t \in Adders :
          pc[t] \in {"stale", "dup", "bucket", "cached"} => poolMu.w = t
    /\ updPc \in {"range", "each"} => poolMu.w = "update"
    /\ \A p \in Peers : peerPc[p] = "rlock" => p \in poolMu.r /\ ~Mutating
    /\ msgPc = "range" => ~Mutating

\* the hashes of the envelopes of pool msgs that open and that filter id
\* matches
Matching(id, msgs) ==
    {h \in DOMAIN msgs :
        open(msgs[h]) = "message" /\ Match(id, createFilter(msgs[h]))}

\* C23: Messages(id) is a pure query with the stated result. A call for an
\* installed filter returns exactly the messages of the envelopes in the
\* pool that open and that the filter matches; a call for an unknown id
\* returns the empty list; and no step of a call changes either index or
\* invokes a handler.
C23_MessagesExact ==
    [][/\ (msgPc = "range" /\ msgPc' = "done") =>
              msgOut' = Matching(msgId, messages)
       /\ (msgPc # "range" /\ msgPc' = "done" /\ qryVars' # qryVars) =>
              msgOut' = {}
       /\ (msgPc' # msgPc \/ msgSeen' # msgSeen) =>
              UNCHANGED <<messages, expirations, fired, notified>>]_vars

\* -------------------------------------------------- observers of the pool

\* The node with a local sender, its dispatch goroutines, and the two
\* readers of the messages index: one peer's snapshots and an application
\* calling Messages; a panic ends the process.
NextObserve ==
    \/ Alive /\ \E f \in Filters : Watch(f)
    \/ Alive /\ \E e \in Soonest \cup Latest : Send(e)
    \/ Alive /\ add_bucket("api")
    \/ Alive /\ add_return("api")
    \/ Alive /\ \E h \in Hashes : postEvent(h)
    \/ Alive /\ \E id \in Filters : Messages_get(id)
    \/ Alive /\ Messages_each
    \/ Alive /\ Messages_fault
    \/ Alive /\ Messages_return
    \/ Alive /\ \E p \in Linked : handlePeer_track(p)
    \/ Alive /\ \E p \in Linked :
                    handlePeer_handshake(p, StatusFrame(protocolVersion))
    \/ Alive /\ \E p \in Linked : envelopes_rlock(p, "broadcast")
    \/ Alive /\ \E p \in Linked : envelopes_range(p)
    \/ Alive /\ \E p \in Linked : envelopes_return(p)
    \/ Alive /\ \E p \in Linked : broadcast(p)

SpecObserve == Init /\ [][NextObserve]_vars

\* the dispatch of the envelope of hash h was started and has run to its end
Dispatched(h) == posted[h] >= 1 /\ events[h] = 0

\* C29: add-then-dispatch ordering. Every envelope that a snapshot of a
\* broadcast task holds, and every envelope that a call of Messages has
\* been yielded, has been dispatched to the filter engine before.
C29_AddThenDispatch ==
    /\ \A p \in Peers : \A e \in snap[p] : Dispatched(Hash(e))
    /\ \A e \in msgSeen : Dispatched(Hash(e))

\* ------------------------------------------------- the identity registry

\* The node with a local sender, its dispatch goroutines taken step by
\* step, and an application that creates identities and installs filters; a
\* panic ends the process.
NextIdent ==
    \/ Alive /\ \E f \in Filters : Watch(f)
    \/ Alive /\ \E e \in Latest \cup Sealed : Send(e)
    \/ Alive /\ add_bucket("api")
    \/ Alive /\ add_return("api")
    \/ Alive /\ \E h \in Hashes : postEvent_open(h)
    \/ Alive /\ \E h \in Hashes : postEvent_notify(h)
    \/ Alive /\ \E h \in Hashes : postEvent_done(h)
    \/ Alive /\ \E k \in Keys, ok \in BOOLEAN : NewIdentity_generate(k, ok)
    \/ Alive /\ NewIdentity_store
    \/ Alive /\ keys_fault

SpecIdent == Init /\ [][NextIdent]_vars

\* C27: identity registry discipline. The write NewIdentity makes to the
\* registry is never under way while a dispatch is reading the registry in
\* its open loop.
C27_RegistryDiscipline == ~KeysRace

\* ----------------------------------------------- handlers that do not return

\* The node with a filter, a local sender, the expiration loop, the clock
\* and one peer's broadcast task; the dispatch goroutines are taken step by
\* step. The scheduler is fair to add, to expire and to the peer's task and
\* promises nothing to a dispatch: a handler may run for ever.
NextHang ==
    \/ Tick
    \/ Start
    \/ Watch("news")
    \/ \E e \in Soonest \cup Latest : Send(e)
    \/ add_bucket("api")
    \/ add_return("api")
    \/ \E h \in Hashes : postEvent_open(h)
    \/ \E h \in Hashes : postEvent_notify(h)
    \/ \E h \in Hashes : postEvent_done(h)
    \/ expire_lock
    \/ expire_range
    \/ expire_each
    \/ expire_clear
    \/ expire_unlock
    \/ \E p \in Sink : handlePeer_track(p)
    \/ \E p \in Sink : handlePeer_handshake(p, StatusFrame(protocolVersion))
    \/ \E p \in Sink : envelopes_rlock(p, "broadcast")
    \/ \E p \in Sink : envelopes_range(p)
    \/ \E p \in Sink : envelopes_return(p)
    \/ \E p \in Sink : broadcast(p)

SpecHang == Init /\ [][NextHang]_vars /\ FairBroadcast

\* adder t is inside add
InAdd(t) == pc[t] \in {"stale", "dup", "bucket", "cached"}

\* C28: dispatch never blocks ingest. No step of a dispatch goroutine
\* takes, waits for or releases the pool lock; and whatever the dispatch
\* goroutines do, a handler that never returns included, an add that has
\* the lock returns and releases it, a sweep that has begun ends and
\* releases it, and a running peer's task gets its snapshot.
C28_DispatchDetached ==
    /\ [][\A h \in Hashes : postPc'[h] # postPc[h] => poolMu' = poolMu]_vars
    /\ InAdd("api") ~> (pc["api"] = "idle" /\ poolMu.w # "api")
    /\ (updPc \in {"range", "each"}) ~> (updPc = "select" /\ poolMu.w # "update")
    /\ \A p \in Sink :
          (conn[p] = "running" /\ peerPc[p] = "wait") ~> (peerPc[p] = "have")

\* the handler of an envelope is running, the envelope has been swept from
\* the pool meanwhile, a later envelope is pooled and its add has returned,
\* and the peer's task has a snapshot that holds it
C28_Witness ==
    \E h, g \in ClearHashes : \E p \in Sink :
        /\ postPc[h] = "handler" /\ fired["news"][h] = 1
        /\ h \notin DOMAIN messages
        /\ g \in DOMAIN messages /\ posted[g] = 1
        /\ pc["api"] = "idle" /\ poolMu.w = "none"
        /\ peerPc[p] = "have" /\ EnvelopeOf(g) \in snap[p]

\* ------------------------------------------------------ the topic matcher

\* the bounded topic set
TopicSet == {"news", "other"}

\* the sequences over S of length n
Tuples(S, n) == [1..n -> S]

\* the topic matchers tried: up to MaxTopics groups of alternatives, a group
\* being a set of topics, the empty group included
Matchers == UNION {Tuples(SUBSET TopicSet, n) : n \in 0..MaxTopics}

\* the envelope topic lists tried
TopicLists == UNION {Tuples(TopicSet, n) : n \in 0..MaxTopics}

\* the other reading of "alternatives": some topic of the list appears in
\* some group
Matches_any(M, E) ==
    \E i \in DOMAIN M : \E j \in DOMAIN E : E[j] \in M[i]

RECURSIVE Matches(_, _)
\* the topic test of a filter, group after group: a group that constrains
\* (is not empty) and has none of the topics of E ends the test
Matches(M, E) ==
    IF M = <<>> THEN TRUE
    ELSE IF Head(M) # {} /\ ~(\E j \in DOMAIN E : E[j] \in Head(M)) THEN FALSE
    ELSE Matches(Tail(M), E)

\* createFilter's matcher for a topic list: one group per topic, holding it
Singles(E) == [i \in DOMAIN E |-> <<E[i]>>]

\* the filter engine tries matcher M against topic list E
filters_Match(M, E) ==
    /\ matcher' = M
    /\ tried' = E
    /\ matched' = Matches(M, E)
    /\ UNCHANGED <<openVars, sealVars, envVars, fineVars, qryVars, frameVars, lineVars, apiVars, regVars, now, node, poolVars,
                   addVars, expVars, evVars, peerVars, histVars>>

NextMatch ==
    \/ \E M \in Matchers : \E E \in TopicLists : filters_Match(M, E)

SpecMatch == Init /\ [][NextMatch]_vars

\* C22: topic matcher semantics. The filter matches exactly when every
\* non-empty group of the matcher holds a topic of the envelope's list; the
\* empty matcher matches every list; and the matcher of the one group [t]
\* matches exactly the lists that contain t, which is what matching a
\* one-topic filter against createFilter's groups decides.
C22_MatcherSemantics ==
    /\ matched <=>
          \A i \in DOMAIN matcher :
              matcher[i] # {} => \E j \in DOMAIN tried : tried[j] \in matcher[i]
    /\ matcher = <<>> => matched
    /\ \A t \in TopicSet :
          matcher = <<{t}>> =>
              /\ matched <=> (\E j \in DOMAIN tried : tried[j] = t)
              /\ matched <=> Match(t, Singles(tried))

\* a matcher of two different constraining groups was tried against a list
\* that has a topic of each, and matched
C22_Witness ==
    /\ matcher = <<{"news"}, {"other"}>>
    /\ tried = <<"other", "news">>
    /\ matched

\* ---------------------------------------------------- the envelope object

\* the nonces Seal may leave
Nonces == 0..MaxNonce

\* common.Hash{}: the hash field of an envelope not hashed yet
ZeroHash == [keccak |-> <<>>]

\* no envelope made or decoded yet
NoObject == [Expiry |-> 0, TTL |-> 0, Data |-> "nil", Nonce |-> 0, hash |-> ZeroHash]

\* rlp.EncodeToBytes(self) of an *Envelope: the five exported fields in
\* their order
EncodeToBytes(o) == <<o.Expiry, o.TTL, Topics(o), o.Data, o.Nonce>>

\* NewEnvelope: the fields of e, Nonce 0, no hash; the new envelope has not
\* been sent, transmitted or decoded
NewEnvelope(e) ==
    /\ envelope' = [Expiry |-> e.Expiry, TTL |-> e.TTL, Data |-> e.Data,
                    Nonce |-> 0, hash |-> ZeroHash]
    /\ raw' = <<>>
    /\ decoded' = NoObject
    /\ key' = ZeroHash
    /\ sealRan' = FALSE
    /\ candidates' = {}
    /\ score' = [n \in 0..MaxNonce |-> 0]
    /\ UNCHANGED <<openVars, matchVars, fineVars, qryVars, frameVars, lineVars, apiVars, regVars, now, node, poolVars,
                   addVars, expVars, evVars, peerVars, histVars>>

\* Envelope.Hash on an envelope object: computed if the cache is zero, and
\* the cache is returned
Envelope_Hash(o) ==
    IF o.hash = ZeroHash THEN Keccak256Hash(EncodeToBytes(o)) ELSE o.hash

\* a call of Hash() on the sender's envelope
Hash_call ==
    /\ envelope # NoObject
    /\ envelope' = [envelope EXCEPT !.hash = Envelope_Hash(envelope)]
    /\ UNCHANGED <<raw, decoded, key>>
    /\ UNCHANGED <<openVars, sealVars, matchVars, fineVars, qryVars, frameVars, lineVars, apiVars, regVars, now, node, poolVars,
                   addVars, expVars, evVars, peerVars, histVars>>

\* what Seal does to the envelope: the best nonce found is assigned
Seal_assign(o, n) == [o EXCEPT !.Nonce = n]

\* Envelope.Seal: the proof of work ends with nonce n
Seal(n) ==
    /\ envelope # NoObject
    /\ envelope' = Seal_assign(envelope, n)
    /\ UNCHANGED <<raw, decoded, key>>
    /\ UNCHANGED <<openVars, sealVars, matchVars, fineVars, qryVars, frameVars, lineVars, apiVars, regVars, now, node, poolVars,
                   addVars, expVars, evVars, peerVars, histVars>>

\* Whisper.Send of the sender's envelope: add stores it under Hash()
Send_envelope ==
    /\ envelope # NoObject
    /\ envelope' = [envelope EXCEPT !.hash = Envelope_Hash(envelope)]
    /\ key' = Envelope_Hash(envelope)
    /\ UNCHANGED <<raw, decoded>>
    /\ UNCHANGED <<openVars, sealVars, matchVars, fineVars, qryVars, frameVars, lineVars, apiVars, regVars, now, node, poolVars,
                   addVars, expVars, evVars, peerVars, histVars>>

\* the envelope is transmitted: its encoding goes on the wire
EncodeRLP ==
    /\ envelope # NoObject
    /\ raw' = EncodeToBytes(envelope)
    /\ UNCHANGED <<envelope, decoded, key>>
    /\ UNCHANGED <<openVars, sealVars, matchVars, fineVars, qryVars, frameVars, lineVars, apiVars, regVars, now, node, poolVars,
                   addVars, expVars, evVars, peerVars, histVars>>

\* Envelope.DecodeRLP at the receiver: the fields from the raw bytes, the
\* hash the digest of the raw bytes
DecodeRLP ==
    /\ raw # <<>>
    /\ decoded' = [Expiry |-> raw[1], TTL |-> raw[2], Data |-> raw[4],
                   Nonce |-> raw[5], hash |-> Keccak256Hash(raw)]
    /\ UNCHANGED <<envelope, raw, key>>
    /\ UNCHANGED <<openVars, sealVars, matchVars, fineVars, qryVars, frameVars, lineVars, apiVars, regVars, now, node, poolVars,
                   addVars, expVars, evVars, peerVars, histVars>>

NextEnvelope ==
    \/ \E e \in Soonest \cup Latest : NewEnvelope(e)
    \/ Hash_call
    \/ \E n \in Nonces : Seal(n)
    \/ Send_envelope
    \/ EncodeRLP
    \/ DecodeRLP

SpecEnvelope == Init /\ [][NextEnvelope]_vars

\* C24: Hash is stable and always reflects the envelope. Whatever the
\* sequence of NewEnvelope, Hash, Seal, encoding, decoding and Send, the
\* value Hash() returns is the Keccak-256 of the encoding of the current
\* five fields, at the sender and at the receiver; hence the key of the
\* envelope in the sender's pool is the hash the receiver has after
\* decoding the bytes of that envelope.
C24_HashReflects ==
    /\ envelope # NoObject =>
          Envelope_Hash(envelope) = Keccak256Hash(EncodeToBytes(envelope))
    /\ decoded # NoObject =>
          Envelope_Hash(decoded) = Keccak256Hash(EncodeToBytes(decoded))
    /\ (key # ZeroHash /\ decoded # NoObject /\ raw = EncodeToBytes(envelope)
            /\ EncodeToBytes(decoded) = raw) =>
          key = Envelope_Hash(decoded)

\* ------------------------------------------------ what removes an envelope

\* The node with every operation that touches the pool or stands next to
\* it: a local sender, filters installed and removed, Messages, the
\* expiration loop, and one peer that connects, delivers frames, takes
\* snapshots and disconnects; a panic ends the process.
NextSweep ==
    \/ Alive /\ Tick
    \/ Alive /\ Start
    \/ Alive /\ Watch("news")
    \/ Alive /\ Unwatch("news")
    \/ Alive /\ \E e \in Soonest \cup Latest : Send(e)
    \/ Alive /\ \E t \in {"api"} \cup Linked : add_bucket(t)
    \/ Alive /\ \E t \in {"api"} \cup Linked : add_return(t)
    \/ Alive /\ expire_lock
    \/ Alive /\ expire_range
    \/ Alive /\ expire_each
    \/ Alive /\ expire_clear
    \/ Alive /\ expire_unlock
    \/ Alive /\ Messages_get("news")
    \/ Alive /\ Messages_each
    \/ Alive /\ Messages_fault
    \/ Alive /\ Messages_return
    \/ Alive /\ \E p \in Linked : handlePeer_track(p)
    \/ Alive /\ \E p \in Linked :
                    handlePeer_handshake(p, StatusFrame(protocolVersion))
    \/ Alive /\ \E p \in Linked, e \in Soonest :
                    handlePeer_read(p, Packet(<<e>>))
    \/ Alive /\ \E p \in Linked : handlePeer_return(p)
    \/ Alive /\ \E p \in Linked : handlePeer_add(p)
    \/ Alive /\ \E p \in Linked : handlePeer_mark(p)
    \/ Alive /\ \E p \in Linked : envelopes_rlock(p, "broadcast")
    \/ Alive /\ \E p \in Linked : envelopes_range(p)
    \/ Alive /\ \E p \in Linked : envelopes_return(p)
    \/ Alive /\ \E p \in Linked : broadcast(p)

SpecSweep == Init /\ [][NextSweep]_vars

\* the expiration loop is inside expire, between Lock and Unlock
Sweeping == updPc \in {"range", "each"}

\* C31: removal only by a sweep of expired entries. A step that takes an
\* envelope out of messages is a step of expire's dump of a bucket, and the
\* envelope's Expiry is <= the time that sweep sampled; so no step of add,
\* Send, a snapshot, Messages, Watch, Unwatch or a peer's connection removes
\* one. And a step of a sweep leaves every envelope with Expiry > the time
\* sampled in messages, and the bucket of that Expiry as it is.
C31_RemovalOnlyBySweep ==
    [][/\ \A h \in DOMAIN messages \ DOMAIN messages' :
            /\ updPc = "each" /\ poolMu.w = "update"
            /\ h \in expirations[then]
            /\ messages[h].Expiry <= expNow
       /\ Sweeping =>
            \A h \in DOMAIN messages :
                messages[h].Expiry > expNow =>
                    /\ h \in DOMAIN messages' /\ messages'[h] = messages[h]
                    /\ expirations'[messages[h].Expiry]
                          = expirations[messages[h].Expiry]]_vars

\* a sweep has dumped the envelope that expired and is clearing its bucket,
\* an envelope that expires later is still pooled, and meanwhile the filter
\* was removed, Messages has returned and the peer has disconnected
C31_Witness ==
    /\ updPc = "each"
    /\ expirations[then] # {} /\ expirations[then] \cap DOMAIN messages = {}
    /\ \E g \in DOMAIN messages : messages[g].Expiry > expNow
    /\ msgPc = "done" /\ msgId = "news" /\ installed = {}
    /\ \E p \in Linked : conn[p] = "closed" /\ recvd[p] # {}

\* ------------------------------------------------- the buckets, conversely

\* C37: converse index consistency. While poolMu is not write-held, every
\* hash of every expiration bucket is a key of messages, and the envelope
\* stored under it has the bucket's timestamp as its Expiry; so no bucket
\* holds the hash of an envelope that is not in the pool.
C37_BucketsConsistent ==
    poolMu.w = "none" =>
        \A t \in DOMAIN expirations : \A h \in expirations[t] :
            /\ h \in DOMAIN messages
            /\ messages[h].Expiry = t

\* after a sweep has emptied the bucket of an envelope that was dispatched,
\* an envelope the peer delivered sits in a later bucket
C37_Witness ==
    /\ poolMu.w = "none" /\ updPc = "select"
    /\ \E t, u \in DOMAIN expirations :
          /\ t < u /\ expirations[t] = {}
          /\ \E h \in expirations[u] : \E p \in Linked : h \in recvd[p]
    /\ \E h \in Hashes : posted[h] = 1 /\ Gone(h)

\* ----------------------------------------------------- once swept, stays out

\* hash h was accepted by add and is no longer in messages: a sweep has
\* removed its envelope
Swept(h) == posted[h] >= 1 /\ h \notin DOMAIN messages

\* C38: no re-entry after expiry. The clock never steps back; and once a
\* sweep has removed an envelope, no step of a later add of an envelope
\* with that hash, called by Send or by a peer's receive loop, puts it into
\* messages or into a bucket again or starts a dispatch for it again.
C38_NoReentry ==
    [][/\ now' >= now
       /\ \A h \in Hashes :
            Swept(h) =>
                /\ h \notin DOMAIN messages'
                /\ \A t \in DOMAIN expirations' : h \in expirations'[t] =>
                      t \in DOMAIN expirations /\ h \in expirations[t]
                /\ posted'[h] = posted[h]
                /\ events'[h] <= events[h]]_vars

\* an envelope was swept from both indexes, the peer has delivered it again
\* and it was marked, and Send was called with it once more and is about to
\* return
C38_Witness ==
    \E h \in Hashes :
        /\ Swept(h) /\ Gone(h)
        /\ pc["api"] = "stale" /\ Hash(env["api"]) = h
        /\ \E p \in Linked : h \in known[p] /\ h \in recvd[p]

\* ------------------------------------------------- the keys of expirations

\* a sweep has emptied the bucket of timestamp t, which has passed, and the
\* bucket is still keyed in expirations
Emptied(t) ==
    /\ t \in DOMAIN expirations
    /\ expirations[t] = {}
    /\ t <= now

\* C34: bounded expiration index. On a started node, a bucket whose
\* timestamp has passed and which a sweep has emptied is eventually no
\* longer keyed in expirations, unless the node is stopped first; so the
\* keys of expirations are those of the envelopes in the pool and a few
\* more, whatever number of timestamps has gone by.
C34_BoundedIndex ==
    \A t \in Expiries :
        (node = "started" /\ Emptied(t))
            ~> (t \notin DOMAIN expirations \/ node = "stopped")

\* ------------------------------------------------------------- shutdown

\* What the runtime guarantees to update's select on top of the scheduler
\* of the expiration loop: among the cases that are ready it chooses at
\* random, so a case that is ready at select after select is taken in the end.
FairSelect ==
    /\ Fairness
    /\ SF_vars(update_quit)

\* the expiration loop, Send and Stop under that scheduler
SpecStop == Init /\ [][NextLive]_vars /\ FairSelect

\* the select of update takes the ticker case in this step: a sweep begins
SweepBegins == updPc = "select" /\ updPc' = "range"

\* the expiration loop has returned and stays so, and nothing is swept
StaysExited ==
    updPc = "exited" =>
        /\ updPc' = "exited"
        /\ poolMu'.w # "update"
        /\ DOMAIN messages \subseteq DOMAIN messages'

\* C36 as claimed: once Stop has closed quit on a started node the
\* expiration loop exits in the end, it takes no further tick before it
\* does, and after it has exited no sweep runs.
C36_Original ==
    /\ (node = "stopped") ~> (updPc = "exited")
    /\ [][node = "stopped" => ~SweepBegins]_vars
    /\ [][StaysExited]_vars

\* C36 as amended: once Stop has closed quit on a started node the
\* expiration loop exits in the end, at one of its selects; until it does
\* a select at which the ticker is ready as well may still begin a sweep,
\* and the sweep under way at Stop is finished; after the loop has exited
\* no sweep runs.
C36_Amended ==
    /\ (node = "stopped") ~> (updPc = "exited")
    /\ [][(node = "stopped" /\ updPc' = "exited" /\ updPc # "exited") =>
              updPc = "select"]_vars
    /\ [][StaysExited]_vars

\* the loop has exited on a stopped node after a sweep of it had removed
\* an envelope, and an envelope that has expired since stays pooled
C36_Witness ==
    /\ updPc = "exited" /\ node = "stopped"
    /\ \E h \in Hashes : posted[h] = 1 /\ Gone(h)
    /\ \E h \in DOMAIN messages : messages[h].Expiry <= now
    /\ poolMu.w = "none"

\* ------------------------------------------------- pruning the known set

\* What the scheduler guarantees to a peer's periodic task and to the
\* goroutines it shares the pool lock with: both tickers of the task keep
\* firing, an RLock that is free again and again is granted, and a
\* goroutine that can run does run.
FairPrune ==
    /\ Fairness
    /\ \A p \in Linked : SF_vars(envelopes_rlock(p, "expire"))
    /\ \A p \in Linked : WF_vars(envelopes_range(p))
    /\ \A p \in Linked : WF_vars(envelopes_return(p))
    /\ \A p \in Linked : WF_vars(broadcast(p))
    /\ \A p \in Linked : WF_vars(peer_expire(p))
    /\ \A p \in Linked : WF_vars(add_bucket(p))
    /\ \A p \in Linked : WF_vars(add_return(p))

\* One peer that delivers envelopes, fresh ones and stale ones, and whose
\* task broadcasts and prunes, next to a local sender, the expiration loop
\* and the clock.
NextPrune ==
    \/ Tick
    \/ Start
    \/ \E e \in Latest : Send(e)
    \/ \E t \in {"api"} \cup Linked : add_bucket(t)
    \/ \E t \in {"api"} \cup Linked : add_return(t)
    \/ expire_lock
    \/ expire_range
    \/ expire_each
    \/ expire_clear
    \/ expire_unlock
    \/ \E p \in Linked : handlePeer_track(p)
    \/ \E p \in Linked : handlePeer_handshake(p, StatusFrame(protocolVersion))
    \/ \E p \in Linked, e \in Soonest : handlePeer_read(p, Packet(<<e>>))
    \/ \E p \in Linked : handlePeer_return(p)
    \/ \E p \in Linked : handlePeer_add(p)
    \/ \E p \in Linked : handlePeer_mark(p)
    \/ \E p \in Linked, j \in Jobs : envelopes_rlock(p, j)
    \/ \E p \in Linked : envelopes_range(p)
    \/ \E p \in Linked : envelopes_return(p)
    \/ \E p \in Linked : broadcast(p)
    \/ \E p \in Linked : peer_expire(p)

SpecPrune == Init /\ [][NextPrune]_vars /\ FairPrune

\* the hashes of the envelopes this layer is fed
FedHashes == {Hash(e) : e \in Soonest \cup Latest}

\* C35: known-set pruning. On a started node, a hash in the known set of a
\* running peer whose envelope is not in the pool, because it was swept or
\* because it was marked on receipt and rejected as stale, is eventually
\* out of that known set (or the peer is no longer running); and a pruning
\* cycle leaves in known only hashes of the pool as its snapshot saw it,
\* so known holds live envelopes and what was marked since.
C35_KnownPruned ==
    /\ \A p \in Linked : \A h \in FedHashes :
          (conn[p] = "running" /\ h \in known[p] /\ h \notin DOMAIN messages)
              ~> (h \notin known[p] \/ conn[p] # "running")
    /\ [][\A p \in Linked :
            (peerPc[p] = "have" /\ job[p] = "expire" /\ peerPc'[p] = "wait") =>
                known'[p] \subseteq {Hash(e) : e \in snap[p]}]_vars

\* a pruning cycle has removed from known the hash of an envelope the peer
\* delivered stale, and kept the hash of one that was broadcast to it and
\* is still pooled
C35_Witness ==
    \E p \in Linked : \E h, g \in FedHashes :
        /\ conn[p] = "running" /\ peerPc[p] = "wait"
        /\ h \in recvd[p] /\ posted[h] = 0 /\ h \notin known[p]
        /\ g \in known[p] /\ sent[p][g] = 1 /\ g \in DOMAIN messages
        /\ pc[p] = "idle"

\* ------------------------------------------------------- the proof of work

\* common.FirstBitSet of a digest, the score of a nonce: 0 for half of the
\* digests, 1 for a quarter, more for the rest
Scores == 0..2

\* what the digests of the candidates may score
ScoreTables == [Nonces -> Scores]

RECURSIVE SealLoop(_, _, _, _, _)
\* Seal's loops from candidate nonce up to, not including, candidate k, with
\* the envelope's Nonce at cur and bestBit at best: a candidate that scores
\* more than bestBit is assigned to the Nonce
SealLoop(nonce, k, sc, cur, best) ==
    IF nonce = k THEN cur
    ELSE IF sc[nonce] > best
         THEN SealLoop(nonce + 1, k, sc, nonce, sc[nonce])
         ELSE SealLoop(nonce + 1, k, sc, cur, best)

\* Envelope.Seal(pow) on the sender's envelope, the deadline passing when
\* the candidates below k have been tried and sc being their scores:
\* bestBit starts at 0, the candidates at 0, the Nonce where it was. The
\* digests hash the envelope's content and the candidate, so a second Seal
\* of the same envelope finds the scores the first one found.
Seal_search(k, sc) ==
    /\ envelope # NoObject
    /\ sealRan => sc = score
    /\ envelope' = [envelope EXCEPT !.Nonce = SealLoop(0, k, sc, @, 0)]
    /\ sealRan' = TRUE
    /\ candidates' = {n \in Nonces : n < k}
    /\ score' = sc
    /\ UNCHANGED <<raw, decoded, key>>
    /\ UNCHANGED <<openVars, matchVars, fineVars, qryVars, frameVars, lineVars, apiVars, regVars, now, node, poolVars,
                   addVars, expVars, evVars, peerVars, histVars>>

\* envelopes made, hashed and sealed, once or again, with every length of
\* the search and every scoring of the candidates
NextSearch ==
    \/ \E e \in Soonest \cup Latest : NewEnvelope(e)
    \/ Hash_call
    \/ \E k \in 0..(MaxNonce + 1), sc \in ScoreTables : Seal_search(k, sc)

SpecSearch == Init /\ [][NextSearch]_vars

\* C33: Seal keeps the best nonce. After Seal has returned on an envelope,
\* whatever its Nonce was before the call, the Nonce is one of the
\* candidates that call tried and scores at least as much as every
\* candidate that call tried.
C33_BestNonce ==
    sealRan =>
        /\ envelope.Nonce \in candidates
        /\ \A n \in candidates : score[envelope.Nonce] >= score[n]

\* ---------------------------------------------------- opening with the keys

\* the identities a node of this layer may configure
Identities == {"k1", "k2"}

\* what Envelope.Open returns with one key: nil (the key decrypts), the
\* error ecies.ErrInvalidPublicKey (not addressed to this key) with the
\* message undecrypted, or another error with no message
Results == {"nil", "ErrInvalidPublicKey", "failed"}

\* what the keys do to one well-formed envelope: at most one key decrypts it
Outcomes ==
    {out \in [Identities -> Results] :
        \A j, k \in Identities : (out[j] = "nil" /\ out[k] = "nil") => j = k}

\* nothing for the filter engine
NoMessage == [delivered |-> FALSE, payload |-> "none", to |-> "none", notifies |-> 0]

\* an opener that gives up at the first key that fails
open_range_first(out, ord) ==
    IF ord = <<>> \/ out[Head(ord)] = "failed" THEN NoMessage
    ELSE IF out[Head(ord)] = "nil"
         THEN [delivered |-> TRUE, payload |-> "plaintext", to |-> Head(ord),
               notifies |-> 1]
         ELSE [delivered |-> TRUE, payload |-> "as sent", to |-> "none",
               notifies |-> 1]

RECURSIVE open_range(_, _)
\* Whisper.open's loop over self.keys, the range yielding the keys in order
\* ord, and what postEvent does with the result: the first key without
\* error sets To and returns, ErrInvalidPublicKey returns the message as it
\* is, any other error goes on to the next key; a message is notified once
open_range(out, ord) ==
    IF ord = <<>> THEN NoMessage
    ELSE IF out[Head(ord)] = "nil"
         THEN [delivered |-> TRUE, payload |-> "plaintext", to |-> Head(ord),
               notifies |-> 1]
    ELSE IF out[Head(ord)] = "ErrInvalidPublicKey"
         THEN [delivered |-> TRUE, payload |-> "as sent", to |-> "none",
               notifies |-> 1]
    ELSE open_range(out, Tail(ord))

\* postEvent of a newly accepted well-formed envelope on a node with
\* identities: the keys answer as out says and the range yields them in
\* order ord
postEvent_keys(out, ord) ==
    /\ keys # {}
    /\ outcome' = out
    /\ order' = ord
    /\ opened' = open_range(out, ord)
    /\ UNCHANGED <<sealVars, envVars, matchVars, fineVars, qryVars, frameVars, lineVars, apiVars, regVars, now, node, poolVars,
                   addVars, expVars, evVars, peerVars, histVars>>

\* A node that configures identities and dispatches envelopes that its keys
\* answer in every way, while a peer is connected.
NextOpen ==
    \/ \E k \in Identities : NewIdentity(k, TRUE)
    \/ \E out \in Outcomes : \E ord \in Orderings(keys) : postEvent_keys(out, ord)
    \/ \E p \in Linked : handlePeer_track(p)
    \/ \E p \in Linked : handlePeer_handshake(p, StatusFrame(protocolVersion))
    \/ \E p \in Linked : handlePeer_return(p)

SpecOpen == Init /\ [][NextOpen]_vars

\* the positions of order at which no earlier key and not this key failed
\* unexpectedly: the first of them is where the search ends
Ends(i) ==
    /\ i \in DOMAIN order
    /\ outcome[order[i]] # "failed"
    /\ \A j \in 1..(i - 1) : outcome[order[j]] = "failed"

\* C32: the key-trial rule of dispatch. On a node with identities, a key
\* that fails unexpectedly sends the opener to the next key; the first key
\* that decrypts ends the search and the message is delivered as plaintext
\* with to set to that identity; a key the envelope is not addressed to
\* ends the search and the message is delivered as it was sent with to
\* unset; when every key has failed nothing is delivered. The filter engine
\* is notified at most once for the envelope, and a dispatch changes
\* nothing of any peer: no connection is closed and nothing is sent.
C32_KeyTrial ==
    /\ [](/\ \A i \in DOMAIN order :
                /\ (Ends(i) /\ outcome[order[i]] = "nil") =>
                      opened = [delivered |-> TRUE, payload |-> "plaintext",
                                to |-> order[i], notifies |-> 1]
                /\ (Ends(i) /\ outcome[order[i]] = "ErrInvalidPublicKey") =>
                      opened = [delivered |-> TRUE, payload |-> "as sent",
                                to |-> "none", notifies |-> 1]
          /\ (\A i \in DOMAIN order : outcome[order[i]] = "failed") =>
                opened = NoMessage
          /\ opened.notifies <= 1)
    /\ [][openVars' # openVars =>
            UNCHANGED <<conn, peers, known, sent, emptySent, status>>]_vars

\* with two identities and a peer running, the first key of the range
\* failed unexpectedly and the second decrypted: the plaintext was
\* delivered with to set to the second
C32_Witness ==
    /\ keys = Identities
    /\ Len(order) = 2
    /\ outcome[order[1]] = "failed" /\ outcome[order[2]] = "nil"
    /\ opened.delivered /\ opened.to = order[2]
    /\ \E p \in Linked : conn[p] = "running"

\* C39: dispatch is independent of the order of the identities. For the
\* envelope and the identities of a dispatch, what was handed to the filter
\* engine is what every other order of the range over the keys would have
\* handed to it; and if one of the identities decrypts the payload, the
\* plaintext was delivered with to set to that identity.
C39_OrderIndependent ==
    /\ \A ord \in Orderings(Range(order)) : opened = open_range(outcome, ord)
    /\ \A i \in DOMAIN order :
          outcome[order[i]] = "nil" =>
              opened.delivered /\ opened.payload = "plaintext"
                  /\ opened.to = order[i]

====
